---- MODULE Spec2Model ----
(***************************************************************************)
(* Model of the Snyk SCA validator (snyk_sca_validator.py and              *)
(* snyk_sca_validator_core.py): the SnykAPI list fetchers with their       *)
(* version fallback, the organization access check, validate_organization, *)
(* the repository URL resolver (parse_repo_url), the duplicate detection   *)
(* (detect_duplicate_projects_by_name_pattern), the file check             *)
(* (validate_file, check_file_exists), the repository scan and the         *)
(* detection of missing files (scan_repository_for_supported_files,        *)
(* detect_missing_snyk_files), the counters of validate_project,           *)
(* validate_target and validate_organization, and the run loop of main     *)
(* with generate_report.  The catalog builders and the reconciliation      *)
(* engine, which the two source files do not contain, are modelled from    *)
(* their description.                                                      *)
(*                                                                         *)
(* The Snyk server is the environment: every request step draws the        *)
(* response (status, body, links.next) from the set of responses a server  *)
(* can give.  Item <<v, p, i>> is the i-th element of the data payload of  *)
(* page p served under API version v.                                      *)
(***************************************************************************)
EXTENDS Integers, Sequences, FiniteSets, TLC

\* ------------------------------------------------------------------ bounds
\* The server offers no next link on page MaxPages or later.
MaxPages == 4
\* Largest number of elements in the data payload of one page.
MaxPageItems == 2
\* Largest number of path segments (groups and repository) of a reference.
MaxDepth == 3
\* The same two limits for the target listing of validate_organization.
OrgMaxPages == 2
OrgMaxItems == 1
\* Largest number of entries of a repository tree, and of projects of the
\* target whose repository is scanned.
MaxTreeEntries == 2
MaxTargetProjects == 2
\* Largest number of organizations of a run, and of targets of each.
MaxOrgs == 2
MaxRunTargets == 1
\* Largest number of targets of the organization whose counters are checked.
MaxCountTargets == 2
\* Largest number of targets added to the scan-target catalog.
MaxCatalogTargets == 3

\* --------------------------------------------------------- program constants
\* snyk_sca_validator.py: api_versions of get_targets_for_org and of
\* validate_organization_access, with version = "2024-10-15" (the default,
\* the only value the program passes).
api_versions == <<"2024-10-15", "2023-05-29", "2023-06-12", "2023-08-14", "2023-10-16">>
\* snyk_sca_validator_core.py: versions of get_organizations_for_group,
\* of validate_organization_access and of get_targets_for_org.
group_versions == <<"2024-10-15", "2023-05-29">>
core_access_versions == <<"2024-10-15", "2023-05-29", "2023-06-18">>
core_target_versions == <<"2024-10-15", "2024-09-04", "2023-05-29", "2023-06-18">>

\* value of None
None == [form |-> "none", page |-> 0, cursor |-> FALSE]

\* The operations of SnykAPI the model runs.
ListOps == {"get_organizations", "get_projects_for_target"}
Ops == ListOps \cup {"get_targets_for_org", "get_organizations_for_group",
                    "core_get_targets_for_org"}
\* The operations that start with the organization access check:
\* SCAValidator.validate_organization of snyk_sca_validator.py and
\* SnykAPI.get_targets_for_org of snyk_sca_validator_core.py.
OrgOps == {"validate_organization", "core_get_targets_for_org"}

VARIABLES
    op,          \* the operation that was called
    pc,          \* where the call is: "page", "targets", "group", "access",
                 \* "core_access", "core_targets", "loop", "parse", "detect",
                 \* "file", "done", "raised"
    vi,          \* index in the version list of the api_version being tried
    page,        \* the loop's page counter
    next_url,    \* the loop's next_url (None when falsy)
    all_items,   \* the accumulator: all_orgs / all_targets / all_projects
    response,    \* the response to the last request
    served,      \* history: <<[n, next]>> of the 200 pages of the current attempt
    result,      \* what the call returned to its caller
    dropped,     \* history of get_targets_for_org called on its own: whether an
                 \* attempt that failed had accumulated items
    impl,        \* the file whose parse_repo_url / validate_file is applied
    url_in,      \* the reference given to parse_repo_url
    repo_info,   \* what parse_repo_url returned; validate_file's repo_info
    accessible,  \* what validate_organization_access returned: "yes", "no"
    listing_failures, \* history: how the version attempts of the target
                 \* listing that failed were answered
    tix,         \* number of targets validate_organization has gone through
    org_results, \* the dict validate_organization builds and returns
    project_requests, \* history: positions in `targets` of the targets for
                 \* which validate_target went on to get_projects_for_target
    all_projects, \* the list given to detect_duplicate_projects_by_name_pattern
    duplicates,  \* the list it returned
    root_dir,    \* validate_file's root_dir / root argument
    file_path,   \* validate_file's file_path argument
    file_response, \* the response to check_file_exists' request
    file_result, \* the dict validate_file returned
    project_result, \* validate_project's counters of the project the file is of
    repo_tree,   \* the tree of the repository that is scanned
    target_projects, \* the attributes of the projects of the target, as
                 \* get_projects_for_target and get_project_details give them
    tree_response, \* the response to the tree request of the scan
    repo_files,  \* what scan_repository_for_supported_files returned
    scanned_target, \* validate_target's target_result for that target
    orgs_to_validate, \* main: the list of organizations of the run
    oix,         \* number of organizations the run loop has gone through
    all_results, \* main: the results collected by the run loop
    calls,       \* history: the calls of validate_organization, each with
                 \* what the access check said and whether the call raised
    requests,    \* history: <<org_id, kind>> of the requests that were sent
    report,      \* the totals of generate_report
    host_catalog, \* the canonical keys of the host catalog
    target_catalog, \* the scan-target catalog: key -> list of targets
    match_result \* what the reconciliation engine's evaluate() returned

fetchVars == <<op, pc, vi, page, next_url, all_items, response, served, result,
               dropped>>
urlVars == <<impl, url_in, repo_info>>
orgVars == <<accessible, listing_failures, tix, org_results, project_requests>>
dupVars == <<all_projects, duplicates>>
fileVars == <<root_dir, file_path, file_response, file_result, project_result>>
scanVars == <<repo_tree, target_projects, tree_response, repo_files, scanned_target>>
runVars == <<orgs_to_validate, oix, all_results, calls, requests, report>>
reconVars == <<host_catalog, target_catalog, match_result>>
vars == <<fetchVars, urlVars, orgVars, dupVars, fileVars, scanVars, runVars, reconVars>>

\* ------------------------------------------------------------- the server
\* data.get('data', []) of page p under version index v holding n elements
PageData(v, p, n) == [i \in 1..n |-> <<v, p, i>>]

\* links.next of a 200 response for page p: absent, or the URL of page p+1
\* given absolute, host-relative ("/rest/...") or path-relative; the
\* absolute form with or without a starting_after cursor in its query.
LinksUpTo(p, maxp) ==
    IF p >= maxp THEN {None}
    ELSE {None}
         \cup {[form |-> f, page |-> p + 1, cursor |-> TRUE] : f \in {"abs", "slash", "rel"}}
         \cup {[form |-> "abs", page |-> p + 1, cursor |-> FALSE]}
Links(p) == LinksUpTo(p, MaxPages)

ErrorStatuses == {401, 403, 404, 429, 500}

\* session.get raised (connection error, timeout): no response object
Exc == [kind |-> "exc", status |-> 0, body |-> "none", n |-> 0, link |-> None]
ErrorResponse(s) == [kind |-> "http", status |-> s, body |-> "text", n |-> 0, link |-> None]
\* a 200 whose body is not JSON: response.json() raises
Garbage == [kind |-> "http", status |-> 200, body |-> "garbage", n |-> 0, link |-> None]
OkPage(n, l) == [kind |-> "http", status |-> 200, body |-> "json", n |-> n, link |-> l]

Responses(p) ==
    {Exc, Garbage}
    \cup {ErrorResponse(s) : s \in ErrorStatuses}
    \cup {OkPage(n, l) : n \in 0..MaxPageItems, l \in Links(p)}

\* the responses to a target request of validate_organization
OrgResponses(p) ==
    {Exc, Garbage}
    \cup {ErrorResponse(s) : s \in ErrorStatuses}
    \cup {OkPage(n, l) : n \in 0..OrgMaxItems, l \in LinksUpTo(p, OrgMaxPages)}
\* the responses to GET /rest/orgs/{org_id}: the body is not read
AccessResponses == {Exc, OkPage(0, None)} \cup {ErrorResponse(s) : s \in ErrorStatuses}

IsOkPage(r) == r.kind = "http" /\ r.status = 200 /\ r.body = "json"

\* ---------------------------------------------------- results of a call
Returned(items) == [kind |-> "list", items |-> items]
Raised == [kind |-> "raise", items |-> <<>>]
NoResult == [kind |-> "pending", items |-> <<>>]

\* ------------------------------------------------- the pagination loop body
\* (mutant of extend: the page is put in front of what was accumulated)
extend_front(all, data) == data \o all
\* all_targets.extend(targets)
extend(all, data) == all \o data

\* "Handle pagination": links.get('next') made absolute
\*   startswith('http') -> as is; startswith('/') -> base_url + next_url;
\*   else base_url + '/' + next_url.lstrip('/');  falsy -> None
normalize_next(link) ==
    IF link = None THEN None
    ELSE IF link.form = "abs" THEN link
    ELSE IF link.form = "slash" THEN [link EXCEPT !.form = "abs"]
    ELSE [link EXCEPT !.form = "abs"]

\* (mutant of loop_continues: the loop is left after its first pass)
loop_once(url) == FALSE
\* `while next_url:`
loop_continues(url) == url # None

\* (mutant of list_outcome: a 429 is not raised but read as a page)
list_outcome_429_page(r) ==
    IF r.kind = "exc" THEN "raise"
    ELSE IF r.status \notin {200, 429} THEN "raise"
    ELSE IF r.status = 200 /\ r.body # "json" THEN "raise"
    ELSE "page"
\* What the body of get_organizations / get_projects_for_target does with a
\* response: raise_for_status() raises on every error status, response.json()
\* raises on a body that is not JSON, session.get raises on transport failure.
list_outcome(r) ==
    IF r.kind = "exc" THEN "raise"
    ELSE IF r.status # 200 THEN "raise"
    ELSE IF r.body # "json" THEN "raise"
    ELSE "page"

\* (mutant of targets_outcome: raise_for_status() is missing, an error status
\* other than 404, 403, 401 is read as a page)
targets_outcome_no_raise(r) ==
    IF r.kind = "exc" THEN "raise"
    ELSE IF r.status \in {404, 403, 401} THEN "None"
    ELSE IF r.status = 200 /\ r.body # "json" THEN "raise"
    ELSE "page"
\* What the body of _get_targets_with_version does with a response:
\* 404, 403, 401 return None; any other error status raises.
targets_outcome(r) ==
    IF r.kind = "exc" THEN "raise"
    ELSE IF r.status \in {404, 403, 401} THEN "None"
    ELSE IF r.status # 200 THEN "raise"
    ELSE IF r.body # "json" THEN "raise"
    ELSE "page"

\* (mutant of after_none: the first None ends get_targets_for_org)
after_none_give_up(v) == "return_empty"
\* get_targets_for_org: what follows a version attempt that returned None
\* (`continue`, and `return []` after the loop) ...
after_none(v) == IF v < Len(api_versions) THEN "next_version" ELSE "return_empty"
\* (mutant of after_raise: the first exception ends get_targets_for_org)
after_raise_give_up(v) == "return_empty"
\* ... and one that raised (`if api_version == api_versions[-1]: return []`)
after_raise(v) ==
    IF api_versions[v] = api_versions[Len(api_versions)] THEN "return_empty"
    ELSE "next_version"

\* snyk_sca_validator_core.py, _get_group_orgs_with_version: 200 is a page,
\* every other status returns None; nothing catches what session.get or
\* resp.json() raise.
group_outcome(r) ==
    IF r.kind = "exc" THEN "raise"
    ELSE IF r.status = 200 THEN (IF r.body # "json" THEN "raise" ELSE "page")
    ELSE "None"

\* its loop goes round again when the page is not empty and links.next
\* carries a starting_after cursor (`if not orgs: break`, `else: break`)
group_continues(r) == r.n > 0 /\ r.link # None /\ r.link.cursor

\* get_organizations_for_group: after a version that returned None
group_after_none(v) == IF v < Len(group_versions) THEN "next_version" ELSE "return_empty"


\* (mutant of access_outcome: 403 and 401 move on to the next version the
\* way 404 does)
access_outcome_denied_next(r, v) ==
    IF r.kind = "http" /\ r.status = 200 THEN "True"
    ELSE IF api_versions[v] = api_versions[Len(api_versions)] THEN "False"
    ELSE "next"
\* snyk_sca_validator.py, validate_organization_access, one pass of its loop
\* over api_versions: 200 returns True, 403 and 401 return False, 404, any
\* other status and an exception `continue`, or return False when
\* api_version == api_versions[-1]
access_outcome(r, v) ==
    IF r.kind = "http" /\ r.status = 200 THEN "True"
    ELSE IF r.kind = "http" /\ r.status \in {403, 401} THEN "False"
    ELSE IF api_versions[v] = api_versions[Len(api_versions)] THEN "False"
    ELSE "next"

\* snyk_sca_validator_core.py, validate_organization_access: nothing catches
\* what session.get raises; `return False` follows the loop
core_access_outcome(r, v) ==
    IF r.kind = "exc" THEN "raise"
    ELSE IF r.status = 200 THEN "True"
    ELSE IF r.status \in {403, 401} THEN "False"
    ELSE IF v < Len(core_access_versions) THEN "next"
    ELSE "False"

\* snyk_sca_validator_core.py, _get_targets_with_version: one request; 200
\* returns data.get('data', []), every other status returns None
core_targets_outcome(r) ==
    IF r.kind = "exc" THEN "raise"
    ELSE IF r.status = 200 THEN (IF r.body # "json" THEN "raise" ELSE "page")
    ELSE "None"
\* snyk_sca_validator_core.py, get_targets_for_org: after a version that
\* returned None
core_after_none(v) == IF v < Len(core_target_versions) THEN "next_version" ELSE "return_empty"

\* how a failed version attempt of the target listing was answered
FailClass(r) ==
    IF r.kind = "http" /\ r.status = 404 THEN "404"
    ELSE IF r.kind = "http" /\ r.status \in {401, 403} THEN "denied"
    ELSE "error"

\* ================================================= strings, as char tuples
\* A Python str is a sequence of one-character strings.
Drop(s, n) == SubSeq(s, n + 1, Len(s))
\* s.startswith(p)
StartsWith(s, p) == Len(s) >= Len(p) /\ SubSeq(s, 1, Len(p)) = p
\* s.endswith(p)
EndsWith(s, p) == Len(s) >= Len(p) /\ SubSeq(s, Len(s) - Len(p) + 1, Len(s)) = p
\* `sub in s`
Contains(s, sub) == \E i \in 0..(Len(s) - Len(sub)) : SubSeq(s, i + 1, i + Len(sub)) = sub
\* s.find(c) + 1 for a character c: 0 when absent
Find(s, c) == IF \E i \in 1..Len(s) : s[i] = c
              THEN CHOOSE i \in 1..Len(s) : s[i] = c /\ \A j \in 1..(i - 1) : s[j] # c
              ELSE 0

RECURSIVE Split(_, _)
\* s.split(c) for a character c
Split(s, c) ==
    LET i == Find(s, c)
    IN  IF i = 0 THEN <<s>>
        ELSE <<SubSeq(s, 1, i - 1)>> \o Split(Drop(s, i), c)

RECURSIVE Join(_, _)
\* c.join(parts)
Join(parts, c) ==
    IF Len(parts) = 0 THEN <<>>
    ELSE IF Len(parts) = 1 THEN parts[1]
    ELSE parts[1] \o <<c>> \o Join(Tail(parts), c)

RECURSIVE Replace(_, _, _)
\* s.replace(old, new), every occurrence, left to right
Replace(s, old, new) ==
    IF Len(s) = 0 THEN <<>>
    ELSE IF StartsWith(s, old) THEN new \o Replace(Drop(s, Len(old)), old, new)
    ELSE <<s[1]>> \o Replace(Tail(s), old, new)

RECURSIVE LStrip(_, _)
LStrip(s, c) == IF Len(s) > 0 /\ s[1] = c THEN LStrip(Tail(s), c) ELSE s
RECURSIVE RStrip(_, _)
RStrip(s, c) == IF Len(s) > 0 /\ s[Len(s)] = c THEN RStrip(SubSeq(s, 1, Len(s) - 1), c) ELSE s
\* s.strip(c)
Strip(s, c) == RStrip(LStrip(s, c), c)

\* the ASCII upper-case letters and their lower-case letters
Upper == <<"A", "B", "C", "D", "E", "F", "G", "H", "I", "J", "K", "L", "M", "N", "O", "P", "Q", "R", "S", "T", "U", "V", "W", "X", "Y", "Z">>
Lower == <<"a", "b", "c", "d", "e", "f", "g", "h", "i", "j", "k", "l", "m", "n", "o", "p", "q", "r", "s", "t", "u", "v", "w", "x", "y", "z">>
\* s.lower() for ASCII letters
ToLower(s) ==
    [i \in 1..Len(s) |->
        IF \E k \in 1..Len(Upper) : Upper[k] = s[i]
        THEN Lower[CHOOSE k \in 1..Len(Upper) : Upper[k] = s[i]]
        ELSE s[i]]

s_http == <<"h", "t", "t", "p", ":", "/", "/">>
s_https == <<"h", "t", "t", "p", "s", ":", "/", "/">>
s_file == <<"f", "i", "l", "e", ":", "/", "/">>
s_git_at == <<"g", "i", "t", "@">>
s_dot_git == <<".", "g", "i", "t">>
s_gitlab_com == <<"g", "i", "t", "l", "a", "b", ".", "c", "o", "m">>
s_dot_gitlab_com == <<".", "g", "i", "t", "l", "a", "b", ".", "c", "o", "m">>
s_github_com == <<"g", "i", "t", "h", "u", "b", ".", "c", "o", "m">>
s_bitbucket_org == <<"b", "i", "t", "b", "u", "c", "k", "e", "t", ".", "o", "r", "g">>
s_gitlab == <<"g", "i", "t", "l", "a", "b">>
s_github == <<"g", "i", "t", "h", "u", "b">>
s_bitbucket == <<"b", "i", "t", "b", "u", "c", "k", "e", "t">>
s_tree == <<"t", "r", "e", "e">>
s_blob == <<"b", "l", "o", "b">>
s_src == <<"s", "r", "c">>
s_dash == <<"-">>
s_main == <<"m", "a", "i", "n">>
s_local == <<"l", "o", "c", "a", "l">>

\* ======================================================== parse_repo_url
\* The dict parse_repo_url returns; `keys` are the keys the dict holds, a key
\* it does not hold has the value <<>>.  NullInfo is None.
RepoInfo(keys, platform, host, owner, repo, branch) ==
    [keys |-> keys, platform |-> platform, host |-> host, owner |-> owner,
     repo |-> repo, branch |-> branch]
NullInfo == RepoInfo({}, "None", <<>>, <<>>, <<>>, <<>>)

\* (mutant of StripGit: the suffix is kept)
KeepGit(x) == x
\* `([^/]+?)(?:\.git)?` on a whole path segment x: the lazy group takes the
\* segment without its .git suffix, and all of it when nothing would be left
StripGit(x) ==
    IF EndsWith(x, s_dot_git) /\ Len(x) > Len(s_dot_git)
    THEN SubSeq(x, 1, Len(x) - Len(s_dot_git))
    ELSE x

\* `https?://`: what follows the scheme, <<>> when the url has neither scheme
SchemeRest(url) ==
    IF StartsWith(url, s_https) THEN Drop(url, Len(s_https))
    ELSE IF StartsWith(url, s_http) THEN Drop(url, Len(s_http))
    ELSE <<>>

AllNonEmpty(segs) == \A i \in 1..Len(segs) : segs[i] # <<>>
\* `/?$`: one trailing slash is optional
OptionalSlash(segs) ==
    IF Len(segs) > 0 /\ segs[Len(segs)] = <<>> THEN SubSeq(segs, 1, Len(segs) - 1)
    ELSE segs

\* ssh_pattern  git@([^:]+):([^/]+)/([^/]+?)(?:\.git)?$  : its groups
\* <<host, owner, repo>>, <<>> when it does not match
ssh_match(url) ==
    IF ~StartsWith(url, s_git_at) THEN <<>>
    ELSE LET r1 == Drop(url, Len(s_git_at))
             c == Find(r1, ":")
         IN  IF c < 2 THEN <<>>
             ELSE LET r2 == Drop(r1, c)
                      sl == Find(r2, "/")
                  IN  IF sl < 2 THEN <<>>
                      ELSE LET r3 == Drop(r2, sl)
                           IN  IF r3 = <<>> \/ Find(r3, "/") # 0 THEN <<>>
                               ELSE <<SubSeq(r1, 1, c - 1), SubSeq(r2, 1, sl - 1), StripGit(r3)>>

\* https?://<site>/([^/]+)/([^/]+?)(?:\.git)?(?:/<marker>/([^/]+))?/?$
\* (the github_patterns and the bitbucket pattern): its groups
\* <<owner, repo, branch>>, branch <<>> when the group did not take part
site_match(url, site, marker) ==
    LET rest == SchemeRest(url)
        prefix == site \o <<"/">>
    IN  IF ~StartsWith(rest, prefix) THEN <<>>
        ELSE LET s == OptionalSlash(Split(Drop(rest, Len(prefix)), "/"))
             IN  IF Len(s) = 2 /\ AllNonEmpty(s) THEN <<s[1], StripGit(s[2]), <<>> >>
                 ELSE IF Len(s) = 4 /\ AllNonEmpty(s) /\ s[3] = marker
                      THEN <<s[1], StripGit(s[2]), s[4]>>
                 ELSE <<>>

\* The part of a gitlab pattern after the host, on the path split at "/":
\*   kind 0  ([^/]+(?:/[^/]+)*)/([^/]+?)(?:\.git)?/tree/([^/]+)/?$
\*   kind 1  ([^/]+(?:/[^/]+)*)/([^/]+?)(?:\.git)?/-/tree/([^/]+)/?$
\*   kind 2  ([^/]+(?:/[^/]+)*)/([^/]+?)(?:\.git)?/-/blob/([^/]+)/.*/?$
\*   kind 3  ([^/]+(?:/[^/]+)*)/([^/]+?)(?:\.git)?/?$
\* its groups <<full_path, repo, branch>> (<<full_path, repo>> for kind 3),
\* <<>> when it does not match.  The greedy first group takes the longest
\* run of segments that lets the rest match.
path_match(kind, segs) ==
    LET s == OptionalSlash(segs)
        n == Len(s)
    IN  IF kind = 0
        THEN IF n >= 4 /\ AllNonEmpty(s) /\ s[n - 1] = s_tree
             THEN <<Join(SubSeq(s, 1, n - 3), "/"), StripGit(s[n - 2]), s[n]>>
             ELSE <<>>
        ELSE IF kind = 1
        THEN IF n >= 5 /\ AllNonEmpty(s) /\ s[n - 2] = s_dash /\ s[n - 1] = s_tree
             THEN <<Join(SubSeq(s, 1, n - 4), "/"), StripGit(s[n - 3]), s[n]>>
             ELSE <<>>
        ELSE IF kind = 2
        THEN LET J == {j \in 2..(Len(segs) - 4) :
                          /\ AllNonEmpty(SubSeq(segs, 1, j))
                          /\ segs[j + 1] = s_dash /\ segs[j + 2] = s_blob
                          /\ segs[j + 3] # <<>>}
             IN  IF J = {} THEN <<>>
                 ELSE LET j == CHOOSE x \in J : \A y \in J : y <= x
                      IN  <<Join(SubSeq(segs, 1, j - 1), "/"), StripGit(segs[j]), segs[j + 3]>>
        ELSE IF n >= 2 /\ AllNonEmpty(s)
             THEN <<Join(SubSeq(s, 1, n - 1), "/"), StripGit(s[n])>>
             ELSE <<>>

\* (mutant of host_matches: the generic patterns lose their negative
\* lookahead)
host_matches_any(family, rest, host) ==
    IF family = 0 THEN host = s_gitlab_com
    ELSE IF family = 1
    THEN EndsWith(host, s_dot_gitlab_com) /\ Len(host) > Len(s_dot_gitlab_com)
    ELSE host # <<>>
\* The host part of gitlab_patterns[i], family = i \div 4:
\*   0  gitlab\.com            1  ([^/]+\.gitlab\.com)
\*   2  (?!github\.com|bitbucket\.org)([^/]+)
host_matches(family, rest, host) ==
    IF family = 0 THEN host = s_gitlab_com
    ELSE IF family = 1
    THEN EndsWith(host, s_dot_gitlab_com) /\ Len(host) > Len(s_dot_gitlab_com)
    ELSE /\ host # <<>>
         /\ ~StartsWith(rest, s_github_com)
         /\ ~StartsWith(rest, s_bitbucket_org)

\* re.match(gitlab_patterns[i], url).groups(), <<>> when there is no match
gitlab_match(i, url) ==
    LET rest == SchemeRest(url)
        sl == Find(rest, "/")
    IN  IF sl = 0 THEN <<>>
        ELSE LET host == SubSeq(rest, 1, sl - 1)
                 pm == path_match(i % 4, Split(Drop(rest, sl), "/"))
             IN  IF ~host_matches(i \div 4, rest, host) \/ pm = <<>> THEN <<>>
                 ELSE IF i \div 4 = 0 THEN pm
                 ELSE <<host>> \o pm

\* groups[k] (0-based) when the group exists and is truthy, else 'main'
BranchOr(groups, k) ==
    IF Len(groups) > k /\ groups[k + 1] # <<>> THEN groups[k + 1] ELSE s_main

\* snyk_sca_validator.py, GitLabClient.parse_repo_url
parse_repo_url(url) ==
    IF url = <<>> THEN NullInfo
    ELSE IF StartsWith(url, s_file)
    THEN RepoInfo({"platform", "host", "owner", "repo", "branch", "is_local"},
                  "local", s_local, s_local, Replace(url, s_file, <<>>), s_main)
    ELSE IF StartsWith(url, <<"/">>) /\ ~StartsWith(url, <<"/", "/">>)
    THEN RepoInfo({"platform", "host", "owner", "repo", "branch", "is_local"},
                  "local", s_local, s_local, url, s_main)
    ELSE IF ssh_match(url) # <<>>
    THEN LET g == ssh_match(url)
         IN  RepoInfo({"platform", "host", "owner", "repo", "branch", "is_ssh"},
                      "git", g[1], g[2], g[3], s_main)
    ELSE IF site_match(url, s_github_com, s_tree) # <<>>
    THEN LET g == site_match(url, s_github_com, s_tree)
         IN  RepoInfo({"platform", "host", "owner", "repo", "branch"},
                      "github", s_github_com, g[1], g[2], BranchOr(g, 2))
    ELSE IF site_match(url, s_github_com, s_blob) # <<>>
    THEN LET g == site_match(url, s_github_com, s_blob)
         IN  RepoInfo({"platform", "host", "owner", "repo", "branch"},
                      "github", s_github_com, g[1], g[2], BranchOr(g, 2))
    ELSE IF site_match(url, s_bitbucket_org, s_src) # <<>>
    THEN LET g == site_match(url, s_bitbucket_org, s_src)
         IN  RepoInfo({"platform", "host", "owner", "repo", "branch"},
                      "bitbucket", s_bitbucket_org, g[1], g[2], BranchOr(g, 2))
    ELSE LET I == {i \in 0..11 : gitlab_match(i, url) # <<>>}
         IN  IF I = {} THEN NullInfo
             ELSE LET i == CHOOSE x \in I : \A y \in I : x <= y
                      groups == gitlab_match(i, url)
                  IN  IF \/ StartsWith(url, s_https \o s_gitlab_com \o <<"/">>)
                         \/ StartsWith(url, s_http \o s_gitlab_com \o <<"/">>)
                      THEN RepoInfo({"platform", "host", "owner", "repo", "branch"},
                               "gitlab", s_gitlab_com, groups[1], groups[2],
                               IF i \in {0, 1, 2, 4, 5, 6, 8, 9, 10}
                               THEN BranchOr(groups, 2) ELSE s_main)
                      ELSE RepoInfo({"platform", "host", "owner", "repo", "branch"},
                               "gitlab", groups[1], groups[2], groups[3],
                               IF i \in {4, 5, 6, 8, 9, 10}
                               THEN BranchOr(groups, 3) ELSE s_main)

\* str.isalpha on one ASCII character, and urllib.parse.scheme_chars
Alpha == {"a", "b", "c", "d", "e", "f", "g", "h", "i", "j", "k", "l", "m", "n", "o", "p", "q", "r", "s", "t", "u", "v", "w", "x", "y", "z"}
         \cup {"A", "B", "C", "D", "E", "F", "G", "H", "I", "J", "K", "L", "M", "N", "O", "P", "Q", "R", "S", "T", "U", "V", "W", "X", "Y", "Z"}
scheme_chars == Alpha \cup {"0", "1", "2", "3", "4", "5", "6", "7", "8", "9"} \cup {"+", "-", "."}

\* urllib.parse.urlparse(url), for a url without "?", "#" and ";":
\* [netloc, path].  The text before the first ":" is the scheme when it
\* starts with a letter and holds scheme characters only; a netloc follows
\* when the rest starts with "//" and ends before the next "/".
urlparse(url) ==
    LET i == Find(url, ":")
        has_scheme == /\ i > 1
                      /\ url[1] \in Alpha
                      /\ \A k \in 1..(i - 1) : url[k] \in scheme_chars
        u1 == IF has_scheme THEN Drop(url, i) ELSE url
    IN  IF StartsWith(u1, <<"/", "/">>)
        THEN LET u2 == Drop(u1, 2)
                 d == Find(u2, "/")
             IN  IF d = 0 THEN [netloc |-> u2, path |-> <<>>]
                 ELSE [netloc |-> SubSeq(u2, 1, d - 1), path |-> Drop(u2, d - 1)]
        ELSE [netloc |-> <<>>, path |-> u1]

\* snyk_sca_validator_core.py, GitLabClient.parse_repo_url
core_parse_repo_url(url0) ==
    IF url0 = <<>> THEN NullInfo
    ELSE
    LET url == IF StartsWith(url0, s_http) THEN s_https \o Drop(url0, Len(s_http)) ELSE url0
        parts == Split(Replace(Replace(url, s_git_at, <<>>), s_dot_git, <<>>), ":")
        ssh_parts == IF StartsWith(url, s_git_at) /\ Len(parts) = 2
                     THEN Split(parts[2], "/") ELSE <<>>
        parsed == urlparse(url)
        host == parsed.netloc
        path0 == Strip(parsed.path, "/")
        path == IF EndsWith(path0, s_dot_git)
                THEN SubSeq(path0, 1, Len(path0) - Len(s_dot_git)) ELSE path0
        path_parts == Split(path, "/")
    IN  IF Len(ssh_parts) >= 2
        THEN RepoInfo({"platform", "host", "owner", "repo", "url"},
                 IF Contains(parts[1], s_gitlab) THEN "gitlab"
                 ELSE IF Contains(parts[1], s_github) THEN "github" ELSE "bitbucket",
                 parts[1],
                 Join(SubSeq(ssh_parts, 1, Len(ssh_parts) - 1), "/"),
                 ssh_parts[Len(ssh_parts)], <<>>)
        ELSE IF Len(path_parts) >= 2
        THEN RepoInfo({"platform", "host", "owner", "repo", "url"},
                 IF Contains(host, s_gitlab) THEN "gitlab"
                 ELSE IF Contains(host, s_github) THEN "github"
                 ELSE IF Contains(host, s_bitbucket) THEN "bitbucket" ELSE "unknown",
                 host,
                 Join(SubSeq(path_parts, 1, Len(path_parts) - 1), "/"),
                 path_parts[Len(path_parts)], <<>>)
        ELSE NullInfo

\* the two implementations of the repository
Impls == {"snyk_sca_validator", "snyk_sca_validator_core"}
Resolve(im, url) ==
    IF im = "snyk_sca_validator" THEN parse_repo_url(url) ELSE core_parse_repo_url(url)

\* ------------------------------------------- the references the model parses
s_GitLab_com == <<"G", "i", "t", "L", "a", "b", ".", "c", "o", "m">>
s_x_gitlab_com == <<"x", ".", "g", "i", "t", "l", "a", "b", ".", "c", "o", "m">>
s_h_io == <<"h", ".", "i", "o">>
s_g == <<"g">>
s_sub == <<"s", "u", "b">>
s_repo == <<"r", "e", "p", "o">>
s_f == <<"f">>
s_dev == <<"d", "e", "v">>

UrlHosts == {s_gitlab_com, s_GitLab_com, s_x_gitlab_com, s_h_io, s_github_com, s_bitbucket_org}
Markers == {"none", "tree", "dashtree", "blob", "blobref"}
\* the path host/g/sub/.../repo of d segments
RepoPath(d) == [k \in 1..d |-> IF k = d THEN s_repo ELSE IF k = 1 THEN s_g ELSE s_sub]
\* /tree/<b>, /-/tree/<b>, /-/blob/<b>/<path>, and /-/blob/<b> with an
\* empty path
MarkerSegs(m) ==
    IF m = "tree" THEN <<s_tree, s_dev>>
    ELSE IF m = "dashtree" THEN <<s_dash, s_tree, s_dev>>
    ELSE IF m = "blob" THEN <<s_dash, s_blob, s_dev, s_f>>
    ELSE IF m = "blobref" THEN <<s_dash, s_blob, s_dev>>
    ELSE <<>>
UrlInputs ==
    [scheme : {s_http, s_https}, host : UrlHosts, depth : 1..MaxDepth,
     marker : Markers, git : BOOLEAN, slash : BOOLEAN]
NoUrl == [scheme |-> <<>>, host |-> <<>>, depth |-> 0, marker |-> "none",
          git |-> FALSE, slash |-> FALSE]
\* SSH references git@host:s1/.../sn[.git], and local references
\* file:///s1/.../sn and /s1/.../sn
SshInputs ==
    [scheme : {s_git_at}, host : UrlHosts, depth : 1..MaxDepth,
     marker : {"none"}, git : BOOLEAN, slash : BOOLEAN]
LocalInputs ==
    [scheme : {s_file, <<>>}, host : {<<>>}, depth : 1..MaxDepth,
     marker : {"none"}, git : {FALSE}, slash : {FALSE}]
\* a host that has github.com as a proper suffix
s_www_github_com == <<"w", "w", "w", ".">> \o s_github_com
SubdomainInputs ==
    [scheme : {s_https}, host : {s_www_github_com}, depth : 1..MaxDepth,
     marker : {"none", "tree"}, git : BOOLEAN, slash : BOOLEAN]
\* references of every shape
RefInputs == UrlInputs \cup SshInputs \cup LocalInputs \cup SubdomainInputs
\* the reference string: .git on the last path segment when u.git, one
\* trailing slash when u.slash; ":" follows the host of an SSH reference
Render(u) ==
    LET segs == RepoPath(u.depth) \o MarkerSegs(u.marker)
        n == Len(segs)
        named == IF u.git THEN [segs EXCEPT ![n] = segs[n] \o s_dot_git] ELSE segs
        sep == IF u.scheme = s_git_at THEN <<":">> ELSE <<"/">>
    IN  u.scheme \o u.host \o sep \o Join(named, "/")
            \o (IF u.slash THEN <<"/">> ELSE <<>>)
Pending == RepoInfo({}, "pending", <<>>, <<>>, <<>>, <<>>)

\* ------------------------------------------- validate_organization's data
\* the url attribute of a target: absent, or a GitLab project URL
target_url == Render([scheme |-> s_https, host |-> s_gitlab_com, depth |-> 2,
                      marker |-> "none", git |-> FALSE, slash |-> FALSE])
TargetUrls == {<<>>, target_url}

\* what validate_project returns for a project with one file, found or not
ProjectResult(present) ==
    [error |-> "none", files_validated |-> 1,
     files_missing |-> IF present THEN 0 ELSE 1,
     files_present |-> IF present THEN 1 ELSE 0]
\* what get_projects_for_target and validate_project give validate_target:
\* the call raised, or the results of the target's projects
ProjectFetches ==
    {[kind |-> "raise", projects |-> <<>>], [kind |-> "list", projects |-> <<>>]}
    \cup {[kind |-> "list", projects |-> <<ProjectResult(b)>>] : b \in BOOLEAN}

RECURSIVE add_projects(_, _)
\* validate_target: `for project in projects:` adds each project_result
add_projects(target_result, projects) ==
    IF projects = <<>> THEN target_result
    ELSE add_projects(
            [target_result EXCEPT
                !.projects = Append(@, Head(projects)),
                !.projects_processed = @ + 1,
                !.files_validated = @ + Head(projects).files_validated,
                !.files_missing = @ + Head(projects).files_missing,
                !.files_present = @ + Head(projects).files_present],
            Tail(projects))

\* validate_target for the target `target` with url attribute `url`, given
\* the project results (none is asked for when the url does not parse)
validate_target(target, url, projects) ==
    IF parse_repo_url(url) = NullInfo
    THEN [target_id |-> target, target_url |-> url,
          error |-> "Could not parse repository URL",
          projects_processed |-> 0, files_validated |-> 0, files_missing |-> 0,
          files_present |-> 0, projects |-> <<>>]
    ELSE add_projects(
            [target_id |-> target, target_url |-> url, error |-> "none",
             projects_processed |-> 0, files_validated |-> 0, files_missing |-> 0,
             files_present |-> 0, projects |-> <<>>],
            projects)

\* validate_organization: the dict returned for an organization that is not
\* accessible, and org_results as built after get_targets_for_org; the error
\* "none" stands for a dict without 'error' key
InaccessibleOrgResults ==
    [error |-> "Organization not accessible", targets_processed |-> 0,
     projects_processed |-> 0, files_validated |-> 0, files_missing |-> 0,
     files_present |-> 0, targets |-> <<>>]
NewOrgResults ==
    [error |-> "none", targets_processed |-> 0,
     projects_processed |-> 0, files_validated |-> 0, files_missing |-> 0,
     files_present |-> 0, targets |-> <<>>]
\* no dict yet
NoOrgResults == [NewOrgResults EXCEPT !.error = "pending"]
\* (mutant of add_target: an error entry is left out of the results)
add_target_skip_error(results, target_result) ==
    IF target_result.error # "none" THEN results
    ELSE [results EXCEPT
            !.targets = Append(@, target_result),
            !.targets_processed = @ + 1,
            !.projects_processed = @ + target_result.projects_processed,
            !.files_validated = @ + target_result.files_validated,
            !.files_missing = @ + target_result.files_missing,
            !.files_present = @ + target_result.files_present]
\* validate_organization: the body of `for target in targets:`
add_target(results, target_result) ==
    [results EXCEPT
        !.targets = Append(@, target_result),
        !.targets_processed = @ + 1,
        !.projects_processed = @ + target_result.projects_processed,
        !.files_validated = @ + target_result.files_validated,
        !.files_missing = @ + target_result.files_missing,
        !.files_present = @ + target_result.files_present]

\* ------------------------------ detect_duplicate_projects_by_name_pattern
\* Largest number of projects in the list given to the detection.
MaxProjects == 3

s_dot == <<".">>
s_dotdot == <<".", ".">>

RECURSIVE norm_comps(_, _, _)
\* posixpath.normpath: the loop `for comp in comps:` over what is left of
\* comps, new_comps being built
norm_comps(comps, new_comps, initial_slashes) ==
    IF comps = <<>> THEN new_comps
    ELSE LET comp == Head(comps)
             n == Len(new_comps)
         IN  IF comp \in {<<>>, s_dot}
             THEN norm_comps(Tail(comps), new_comps, initial_slashes)
             ELSE IF \/ comp # s_dotdot
                     \/ (initial_slashes = 0 /\ n = 0)
                     \/ (n > 0 /\ new_comps[n] = s_dotdot)
             THEN norm_comps(Tail(comps), Append(new_comps, comp), initial_slashes)
             ELSE IF n > 0
             THEN norm_comps(Tail(comps), SubSeq(new_comps, 1, n - 1), initial_slashes)
             ELSE norm_comps(Tail(comps), new_comps, initial_slashes)

\* os.path.normpath(path) on a POSIX system
normpath(path) ==
    IF path = <<>> THEN s_dot
    ELSE LET initial_slashes ==
                 IF ~StartsWith(path, <<"/">>) THEN 0
                 ELSE IF StartsWith(path, <<"/", "/">>) /\ ~StartsWith(path, <<"/", "/", "/">>)
                 THEN 2 ELSE 1
             out == [i \in 1..initial_slashes |-> "/"]
                        \o Join(norm_comps(Split(path, "/"), <<>>, initial_slashes), "/")
         IN  IF out = <<>> THEN s_dot ELSE out

\* project_name.split(':', 1)[1].strip(), normalized
unique_part(project_name) ==
    normpath(Strip(Drop(project_name, Find(project_name, ":")), " "))

\* (mutant of skipped: every project takes part)
skipped_none(project) == FALSE
\* `if not target_id or ':' not in project_name: continue`; the target id ""
\* stands for an absent or empty one
skipped(project) == project.target_id = "" \/ Find(project.name, ":") = 0

\* the dict appended to target_groups[target_id][unique_part] for the project
\* at position i of all_projects; a project's id is its position
group_entry(all, i) ==
    [project_id |-> i, project_name |-> all[i].name, created |-> all[i].created,
     target_id |-> all[i].target_id, unique_part |-> unique_part(all[i].name)]

RECURSIVE group_entries(_, _)
\* the dicts appended by the first loop, from position i on, in order
group_entries(all, i) ==
    IF i > Len(all) THEN <<>>
    ELSE IF skipped(all[i]) THEN group_entries(all, i + 1)
    ELSE <<group_entry(all, i)>> \o group_entries(all, i + 1)

RECURSIVE first_seen(_)
\* the keys of a dict in insertion order, from the keys as they were inserted
first_seen(keys) ==
    IF keys = <<>> THEN <<>>
    ELSE LET init == first_seen(SubSeq(keys, 1, Len(keys) - 1))
             k == keys[Len(keys)]
         IN  IF \E j \in 1..Len(init) : init[j] = k THEN init ELSE Append(init, k)

\* (mutant of insert_newest_first: the list is left in the order given)
insert_in_order(sorted, x) == Append(sorted, x)
\* one step of the stable sort by 'created', newest first: x goes after the
\* members that are not older than it
insert_newest_first(sorted, x) ==
    SelectSeq(sorted, LAMBDA e : e.created >= x.created) \o <<x>>
        \o SelectSeq(sorted, LAMBDA e : e.created < x.created)

RECURSIVE sort_newest_first(_)
\* projects.sort(key=lambda x: x.get('created', ''), reverse=True)
sort_newest_first(projects) ==
    IF projects = <<>> THEN <<>>
    ELSE insert_newest_first(sort_newest_first(SubSeq(projects, 1, Len(projects) - 1)),
                             projects[Len(projects)])

\* _analyze_name_pattern_duplicates
analyze_name_pattern_duplicates(projects, part) ==
    LET sorted == sort_newest_first(projects)
    IN  [i \in 1..(Len(sorted) - 1) |->
            [project_id |-> sorted[i + 1].project_id,
             project_name |-> sorted[i + 1].project_name,
             unique_identifier |-> part,
             duplicate_of |-> sorted[1].project_id,
             duplicate_of_name |-> sorted[1].project_name,
             target_id |-> sorted[i + 1].target_id,
             created |-> sorted[i + 1].created,
             duplicate_created |-> sorted[1].created]]

RECURSIVE stale_of_parts(_, _, _)
\* the inner loop `for unique_part, projects in unique_groups.items():` over
\* the parts that are left
stale_of_parts(entries, target, parts) ==
    IF parts = <<>> THEN <<>>
    ELSE LET projects == SelectSeq(entries, LAMBDA e :
                            e.target_id = target /\ e.unique_part = Head(parts))
         IN  (IF Len(projects) > 1
              THEN analyze_name_pattern_duplicates(projects, Head(parts))
              ELSE <<>>)
             \o stale_of_parts(entries, target, Tail(parts))

RECURSIVE stale_of_targets(_, _)
\* the outer loop `for target_id, unique_groups in target_groups.items():`
stale_of_targets(entries, targets) ==
    IF targets = <<>> THEN <<>>
    ELSE LET mine == SelectSeq(entries, LAMBDA e : e.target_id = Head(targets))
             parts == first_seen([j \in 1..Len(mine) |-> mine[j].unique_part])
         IN  stale_of_parts(entries, Head(targets), parts)
                \o stale_of_targets(entries, Tail(targets))

\* detect_duplicate_projects_by_name_pattern(all_projects)
detect_duplicate_projects_by_name_pattern(all) ==
    LET entries == group_entries(all, 1)
    IN  stale_of_targets(entries,
            first_seen([j \in 1..Len(entries) |-> entries[j].target_id]))

\* project names, target ids (one absent) and creation timestamps; timestamps
\* of one format compare as strings the way these numbers do
s_proj_dot_a == <<"p", "r", "o", "j", ":", ".", "/", "a">>
s_proj_a == <<"p", "r", "o", "j", ":", "a">>
s_proj_up_a == <<"p", "r", "o", "j", ":", ".", ".", "/", "x", "/", ".", ".", "/", "a">>
s_a == <<"a">>
ProjectNames == {s_proj_dot_a, s_proj_a, s_proj_up_a, s_a}
TargetIds == {"", "t1", "t2"}
Timestamps == {1, 2}
Projects == [name : ProjectNames, target_id : TargetIds, created : Timestamps]
ProjectLists == UNION {[1..n -> Projects] : n \in 0..MaxProjects}
\* the lists given to the detection in every order: projects of one or two
\* groups per target, with three creation timestamps
OrderedProjects ==
    [name : {s_proj_dot_a, s_proj_a, s_proj_up_a}, target_id : {"t1", "t2"},
     created : {1, 2, 3}]
OrderedLists == UNION {[1..n -> OrderedProjects] : n \in 0..MaxProjects}

\* ----------------------------------------- validate_file, check_file_exists
\* snyk_sca_validator.py, validate_file: full_path
full_path_of(root, path) ==
    IF root # <<>> /\ ~StartsWith(path, root)
    THEN Strip(root \o <<"/">> \o path, "/")
    ELSE path

\* posixpath.join(a, p)
os_path_join(a, p) ==
    IF StartsWith(p, <<"/">>) THEN p
    ELSE IF a = <<>> \/ EndsWith(a, <<"/">>) THEN a \o p
    ELSE a \o <<"/">> \o p

\* snyk_sca_validator_core.py, validate_file: full_path
core_full_path_of(root, path) ==
    Strip(Replace(os_path_join(root, path), <<"\\">>, <<"/">>), "/")

\* the answers to the file request of check_file_exists; no request made
FileStatuses == {200, 204, 401, 403, 404, 500}
FileResponse(status) ==
    [kind |-> "http", status |-> status, body |-> "text", n |-> 0, link |-> None]
FileResponses == {Exc} \cup {FileResponse(status) : status \in FileStatuses}
NoFileResponse == [kind |-> "none", status |-> 0, body |-> "none", n |-> 0, link |-> None]

\* whether check_file_exists sends a request for this repository: it does
\* for a GitLab, GitHub or Bitbucket one in snyk_sca_validator.py, for a
\* GitLab one in snyk_sca_validator_core.py
file_requested(file, repo) ==
    /\ repo # NullInfo
    /\ IF file = "snyk_sca_validator"
       THEN repo.platform \in {"gitlab", "github", "bitbucket"}
       ELSE repo.platform = "gitlab"

\* snyk_sca_validator.py, GitLabClient.check_file_exists for a repository
\* that is not local, given the answer r to its file request: "True" or
\* "False".  raise_for_status raises for the statuses from 400 on, and what
\* is raised inside the try is caught.
check_file_exists(repo, r) ==
    IF ~file_requested("snyk_sca_validator", repo) THEN "False"
    ELSE IF r.kind = "exc" THEN "False"
    ELSE IF r.status = 200 THEN "True"
    ELSE IF r.status = 404 THEN "False"
    ELSE IF r.status >= 400 THEN "False"
    ELSE "False"

\* snyk_sca_validator_core.py, GitLabClient.check_file_exists: "True",
\* "False", or "raise" when session.get raised
core_check_file_exists(repo, r) ==
    IF ~file_requested("snyk_sca_validator_core", repo) THEN "False"
    ELSE IF r.kind = "exc" THEN "raise"
    ELSE IF r.status = 200 THEN "True"
    ELSE "False"

\* (mutant of count_file: a file that is not found counts as present too)
count_file_present(counters, exists) ==
    [files_validated |-> counters.files_validated + 1,
     files_missing |-> counters.files_missing + (IF exists = "True" THEN 0 ELSE 1),
     files_present |-> counters.files_present + 1]
\* validate_project: project_result before its loop over the files, and the
\* loop body for a file whose validate_file said `exists`
NewProjectResult == [files_validated |-> 0, files_missing |-> 0, files_present |-> 0]
count_file(counters, exists) ==
    [files_validated |-> counters.files_validated + 1,
     files_missing |-> counters.files_missing + (IF exists = "True" THEN 0 ELSE 1),
     files_present |-> counters.files_present + (IF exists = "True" THEN 1 ELSE 0)]

\* roots and file paths
s_app == <<"a", "p", "p">>
s_x == <<"x">>
s_application == <<"a", "p", "p", "l", "i", "c", "a", "t", "i", "o", "n">>
Roots == {<<>>, s_app, s_app \o <<"/">>, <<"/">> \o s_app}
FilePaths ==
    {s_x, s_app \o <<"/">> \o s_x, s_application \o <<"/">> \o s_x,
     <<"/">> \o s_x, s_x \o <<"/">>, s_app}
\* the repositories a file is looked up in
FileRepos ==
    {RepoInfo({"platform", "host", "owner", "repo", "branch"}, pf, h, s_g, s_repo, s_main) :
        <<pf, h>> \in {<<"gitlab", s_gitlab_com>>, <<"github", s_github_com>>}}

\* ------------------------------------------- the scan for supported files
\* snyk_sca_validator.py, get_all_supported_files: the patterns of
\* SNYK_SUPPORTED_FILES (sca, container, iac), duplicates removed
all_supported ==
    {<<"*", ".", "b", "i", "c", "e", "p">>,
     <<"*", ".", "c", "s", "p", "r", "o", "j">>,
     <<"*", ".", "f", "s", "p", "r", "o", "j">>,
     <<"*", ".", "j", "s", "o", "n">>,
     <<"*", ".", "t", "e", "m", "p", "l", "a", "t", "e">>,
     <<"*", ".", "t", "e", "m", "p", "l", "a", "t", "e", ".", "j", "s", "o", "n">>,
     <<"*", ".", "t", "f">>,
     <<"*", ".", "t", "f", ".", "j", "s", "o", "n">>,
     <<"*", ".", "t", "f", "v", "a", "r", "s">>,
     <<"*", ".", "t", "f", "v", "a", "r", "s", ".", "j", "s", "o", "n">>,
     <<"*", ".", "v", "b", "p", "r", "o", "j">>,
     <<"*", ".", "y", "a", "m", "l">>,
     <<"*", ".", "y", "m", "l">>,
     <<".", "b", "o", "w", "e", "r", "r", "c">>,
     <<".", "d", "o", "c", "k", "e", "r", "i", "g", "n", "o", "r", "e">>,
     <<"C", "a", "r", "g", "o", ".", "l", "o", "c", "k">>,
     <<"C", "a", "r", "g", "o", ".", "t", "o", "m", "l">>,
     <<"C", "a", "r", "t", "f", "i", "l", "e">>,
     <<"C", "a", "r", "t", "f", "i", "l", "e", ".", "r", "e", "s", "o", "l", "v", "e", "d">>,
     <<"C", "h", "a", "r", "t", ".", "y", "a", "m", "l">>,
     <<"C", "o", "n", "t", "a", "i", "n", "e", "r", "f", "i", "l", "e">>,
     <<"D", "o", "c", "k", "e", "r", "f", "i", "l", "e">>,
     <<"G", "e", "m", "f", "i", "l", "e">>,
     <<"G", "e", "m", "f", "i", "l", "e", ".", "l", "o", "c", "a", "l">>,
     <<"G", "e", "m", "f", "i", "l", "e", ".", "l", "o", "c", "k">>,
     <<"G", "o", "p", "k", "g", ".", "l", "o", "c", "k">>,
     <<"G", "o", "p", "k", "g", ".", "t", "o", "m", "l">>,
     <<"P", "a", "c", "k", "a", "g", "e", ".", "s", "w", "i", "f", "t">>,
     <<"P", "i", "p", "f", "i", "l", "e">>,
     <<"P", "i", "p", "f", "i", "l", "e", ".", "l", "o", "c", "k">>,
     <<"P", "o", "d", "f", "i", "l", "e">>,
     <<"P", "o", "d", "f", "i", "l", "e", ".", "l", "o", "c", "k">>,
     <<"P", "u", "l", "u", "m", "i", ".", "*", ".", "y", "a", "m", "l">>,
     <<"P", "u", "l", "u", "m", "i", ".", "y", "a", "m", "l">>,
     <<"P", "u", "l", "u", "m", "i", ".", "y", "m", "l">>,
     <<"b", "o", "w", "e", "r", "-", "c", "o", "m", "p", "o", "n", "e", "n", "t", "s", ".", "j", "s", "o", "n">>,
     <<"b", "o", "w", "e", "r", ".", "j", "s", "o", "n">>,
     <<"b", "u", "i", "l", "d", ".", "g", "r", "a", "d", "l", "e">>,
     <<"b", "u", "i", "l", "d", ".", "g", "r", "a", "d", "l", "e", ".", "k", "t", "s">>,
     <<"b", "u", "i", "l", "d", ".", "s", "b", "t">>,
     <<"b", "u", "i", "l", "d", ".", "x", "m", "l">>,
     <<"c", "d", "k", ".", "j", "s", "o", "n">>,
     <<"c", "o", "m", "p", "o", "n", "e", "n", "t", ".", "j", "s", "o", "n">>,
     <<"c", "o", "m", "p", "o", "s", "e", "r", "-", "r", "e", "q", "u", "i", "r", "e", "-", "c", "h", "e", "c", "k", "e", "r", ".", "j", "s", "o", "n">>,
     <<"c", "o", "m", "p", "o", "s", "e", "r", ".", "j", "s", "o", "n">>,
     <<"c", "o", "m", "p", "o", "s", "e", "r", ".", "l", "o", "c", "k">>,
     <<"c", "o", "n", "a", "n", "f", "i", "l", "e", ".", "p", "y">>,
     <<"c", "o", "n", "a", "n", "f", "i", "l", "e", ".", "t", "x", "t">>,
     <<"c", "o", "n", "d", "a", ".", "y", "m", "l">>,
     <<"d", "o", "c", "k", "e", "r", "-", "c", "o", "m", "p", "o", "s", "e", ".", "o", "v", "e", "r", "r", "i", "d", "e", ".", "y", "a", "m", "l">>,
     <<"d", "o", "c", "k", "e", "r", "-", "c", "o", "m", "p", "o", "s", "e", ".", "o", "v", "e", "r", "r", "i", "d", "e", ".", "y", "m", "l">>,
     <<"d", "o", "c", "k", "e", "r", "-", "c", "o", "m", "p", "o", "s", "e", ".", "y", "a", "m", "l">>,
     <<"d", "o", "c", "k", "e", "r", "-", "c", "o", "m", "p", "o", "s", "e", ".", "y", "m", "l">>,
     <<"e", "n", "v", "i", "r", "o", "n", "m", "e", "n", "t", ".", "y", "m", "l">>,
     <<"g", "e", "m", "s", "p", "e", "c">>,
     <<"g", "l", "i", "d", "e", ".", "l", "o", "c", "k">>,
     <<"g", "l", "i", "d", "e", ".", "y", "a", "m", "l">>,
     <<"g", "o", ".", "m", "o", "d">>,
     <<"g", "o", ".", "s", "u", "m">>,
     <<"g", "r", "a", "d", "l", "e", ".", "p", "r", "o", "p", "e", "r", "t", "i", "e", "s">>,
     <<"i", "v", "y", ".", "x", "m", "l">>,
     <<"k", "u", "s", "t", "o", "m", "i", "z", "a", "t", "i", "o", "n", ".", "y", "a", "m", "l">>,
     <<"k", "u", "s", "t", "o", "m", "i", "z", "a", "t", "i", "o", "n", ".", "y", "m", "l">>,
     <<"m", "i", "x", ".", "e", "x", "s">>,
     <<"m", "i", "x", ".", "l", "o", "c", "k">>,
     <<"p", "a", "c", "k", "a", "g", "e", "-", "l", "o", "c", "k", ".", "j", "s", "o", "n">>,
     <<"p", "a", "c", "k", "a", "g", "e", ".", "j", "s", "o", "n">>,
     <<"p", "a", "c", "k", "a", "g", "e", "s", ".", "c", "o", "n", "f", "i", "g">>,
     <<"p", "a", "c", "k", "a", "g", "e", "s", ".", "l", "o", "c", "k", ".", "j", "s", "o", "n">>,
     <<"p", "n", "p", "m", "-", "l", "o", "c", "k", ".", "y", "a", "m", "l">>,
     <<"p", "o", "e", "t", "r", "y", ".", "l", "o", "c", "k">>,
     <<"p", "o", "m", ".", "x", "m", "l">>,
     <<"p", "r", "o", "j", "e", "c", "t", ".", "a", "s", "s", "e", "t", "s", ".", "j", "s", "o", "n">>,
     <<"p", "r", "o", "j", "e", "c", "t", ".", "j", "s", "o", "n">>,
     <<"p", "r", "o", "j", "e", "c", "t", "/", "b", "u", "i", "l", "d", ".", "p", "r", "o", "p", "e", "r", "t", "i", "e", "s">>,
     <<"p", "r", "o", "j", "e", "c", "t", "/", "p", "l", "u", "g", "i", "n", "s", ".", "s", "b", "t">>,
     <<"p", "u", "b", "s", "p", "e", "c", ".", "l", "o", "c", "k">>,
     <<"p", "u", "b", "s", "p", "e", "c", ".", "y", "a", "m", "l">>,
     <<"p", "y", "p", "r", "o", "j", "e", "c", "t", ".", "t", "o", "m", "l">>,
     <<"r", "e", "q", "u", "i", "r", "e", "m", "e", "n", "t", "s", "-", "d", "e", "v", ".", "t", "x", "t">>,
     <<"r", "e", "q", "u", "i", "r", "e", "m", "e", "n", "t", "s", "-", "t", "e", "s", "t", ".", "t", "x", "t">>,
     <<"r", "e", "q", "u", "i", "r", "e", "m", "e", "n", "t", "s", ".", "l", "o", "c", "k">>,
     <<"r", "e", "q", "u", "i", "r", "e", "m", "e", "n", "t", "s", ".", "t", "x", "t">>,
     <<"r", "e", "q", "u", "i", "r", "e", "m", "e", "n", "t", "s", ".", "y", "a", "m", "l">>,
     <<"r", "e", "q", "u", "i", "r", "e", "m", "e", "n", "t", "s", ".", "y", "m", "l">>,
     <<"s", "a", "m", ".", "y", "a", "m", "l">>,
     <<"s", "a", "m", ".", "y", "m", "l">>,
     <<"s", "e", "r", "v", "e", "r", "l", "e", "s", "s", ".", "j", "s", "o", "n">>,
     <<"s", "e", "r", "v", "e", "r", "l", "e", "s", "s", ".", "y", "a", "m", "l">>,
     <<"s", "e", "r", "v", "e", "r", "l", "e", "s", "s", ".", "y", "m", "l">>,
     <<"s", "e", "t", "u", "p", ".", "p", "y">>,
     <<"s", "f", "d", "x", "-", "p", "r", "o", "j", "e", "c", "t", ".", "j", "s", "o", "n">>,
     <<"t", "e", "m", "p", "l", "a", "t", "e", ".", "y", "a", "m", "l">>,
     <<"t", "e", "m", "p", "l", "a", "t", "e", ".", "y", "m", "l">>,
     <<"t", "e", "r", "r", "a", "f", "o", "r", "m", ".", "t", "f", "v", "a", "r", "s">>,
     <<"t", "e", "r", "r", "a", "f", "o", "r", "m", ".", "t", "f", "v", "a", "r", "s", ".", "j", "s", "o", "n">>,
     <<"v", "a", "l", "u", "e", "s", ".", "y", "a", "m", "l">>,
     <<"v", "a", "l", "u", "e", "s", ".", "y", "m", "l">>,
     <<"v", "c", "p", "k", "g", "-", "c", "o", "n", "f", "i", "g", "u", "r", "a", "t", "i", "o", "n", ".", "j", "s", "o", "n">>,
     <<"v", "c", "p", "k", "g", ".", "j", "s", "o", "n">>,
     <<"y", "a", "r", "n", ".", "l", "o", "c", "k">>}

\* snyk_sca_validator_core.py, scan_repository_for_supported_files:
\* supported_patterns; each regular expression is a literal followed by $,
\* listed here by its literal
supported_patterns ==
    <<<<"p", "a", "c", "k", "a", "g", "e", ".", "j", "s", "o", "n">>,
      <<"p", "a", "c", "k", "a", "g", "e", "-", "l", "o", "c", "k", ".", "j", "s", "o", "n">>,
      <<"y", "a", "r", "n", ".", "l", "o", "c", "k">>,
      <<"r", "e", "q", "u", "i", "r", "e", "m", "e", "n", "t", "s", ".", "t", "x", "t">>,
      <<"P", "i", "p", "f", "i", "l", "e">>,
      <<"P", "i", "p", "f", "i", "l", "e", ".", "l", "o", "c", "k">>,
      <<"p", "o", "e", "t", "r", "y", ".", "l", "o", "c", "k">>,
      <<"p", "y", "p", "r", "o", "j", "e", "c", "t", ".", "t", "o", "m", "l">>,
      <<"p", "o", "m", ".", "x", "m", "l">>,
      <<"b", "u", "i", "l", "d", ".", "g", "r", "a", "d", "l", "e">>,
      <<"b", "u", "i", "l", "d", ".", "g", "r", "a", "d", "l", "e", ".", "k", "t", "s">>,
      <<"c", "o", "m", "p", "o", "s", "e", "r", ".", "j", "s", "o", "n">>,
      <<"c", "o", "m", "p", "o", "s", "e", "r", ".", "l", "o", "c", "k">>,
      <<"G", "e", "m", "f", "i", "l", "e">>,
      <<"G", "e", "m", "f", "i", "l", "e", ".", "l", "o", "c", "k">>,
      <<"g", "o", ".", "m", "o", "d">>,
      <<"g", "o", ".", "s", "u", "m">>,
      <<"C", "a", "r", "g", "o", ".", "t", "o", "m", "l">>,
      <<"C", "a", "r", "g", "o", ".", "l", "o", "c", "k">>,
      <<"n", "u", "g", "e", "t", ".", "c", "o", "n", "f", "i", "g">>,
      <<"p", "a", "c", "k", "a", "g", "e", "s", ".", "c", "o", "n", "f", "i", "g">>,
      <<".", "c", "s", "p", "r", "o", "j">>,
      <<".", "v", "b", "p", "r", "o", "j">>,
      <<".", "f", "s", "p", "r", "o", "j">>,
      <<"D", "o", "c", "k", "e", "r", "f", "i", "l", "e">>,
      <<".", "d", "o", "c", "k", "e", "r", "i", "g", "n", "o", "r", "e">>,
      <<"d", "o", "c", "k", "e", "r", "-", "c", "o", "m", "p", "o", "s", "e", ".", "y", "m", "l">>,
      <<"d", "o", "c", "k", "e", "r", "-", "c", "o", "m", "p", "o", "s", "e", ".", "y", "a", "m", "l">>,
      <<".", "n", "v", "m", "r", "c">>,
      <<".", "n", "o", "d", "e", "-", "v", "e", "r", "s", "i", "o", "n">>,
      <<".", "p", "y", "t", "h", "o", "n", "-", "v", "e", "r", "s", "i", "o", "n">>,
      <<".", "r", "u", "b", "y", "-", "v", "e", "r", "s", "i", "o", "n">>,
      <<".", "j", "a", "v", "a", "-", "v", "e", "r", "s", "i", "o", "n">>,
      <<".", "s", "b", "t">>,
      <<"b", "u", "i", "l", "d", ".", "s", "b", "t">>,
      <<"p", "r", "o", "j", "e", "c", "t", "/", "p", "l", "u", "g", "i", "n", "s", ".", "s", "b", "t">>,
      <<"p", "r", "o", "j", "e", "c", "t", "/", "b", "u", "i", "l", "d", ".", "p", "r", "o", "p", "e", "r", "t", "i", "e", "s">>>>

\* snyk_sca_validator.py, _is_snyk_supported_file
is_snyk_supported_file(filename) ==
    \E pattern \in all_supported :
        IF StartsWith(pattern, <<"*", ".">>)
        THEN EndsWith(filename, Tail(pattern))
        ELSE pattern = filename

\* os.path.basename(path)
basename(path) == LET parts == Split(path, "/") IN parts[Len(parts)]

\* an item of the repository tree GitLab answers with
TreeEntry(type, path) == [type |-> type, path |-> path]

\* snyk_sca_validator.py, _scan_gitlab_repository, the loop over tree_data:
\* found_files (file_type left out)
found_files(tree_data) ==
    LET supported(item) ==
            item.type = "blob" /\ is_snyk_supported_file(basename(item.path))
        kept == SelectSeq(tree_data, supported)
    IN  [i \in 1..Len(kept) |->
            [file_path |-> kept[i].path, full_path |-> kept[i].path, exists |-> TRUE]]

\* snyk_sca_validator.py, _scan_gitlab_repository, given the answer r to the
\* tree request: what is raised inside the try is caught
scan_gitlab_repository(r, tree_data) ==
    IF r.kind = "exc" THEN <<>>
    ELSE IF r.status = 200 THEN found_files(tree_data)
    ELSE <<>>

\* re.search(literal + '$', file_path, re.IGNORECASE)
re_search(literal, path) == EndsWith(ToLower(path), ToLower(literal))

\* snyk_sca_validator_core.py, scan_repository_for_supported_files, the loop
\* over files: supported_files, each with the first pattern that matches
supported_files(files) ==
    LET matches(f) == {k \in 1..Len(supported_patterns) :
                          re_search(supported_patterns[k], f.path)}
        supported(f) == f.type = "blob" /\ matches(f) # {}
        first(f) == CHOOSE k \in matches(f) : \A j \in matches(f) : k <= j
        kept == SelectSeq(files, supported)
    IN  [i \in 1..Len(kept) |->
            [file_path |-> kept[i].path,
             pattern |-> supported_patterns[first(kept[i])]]]

\* snyk_sca_validator_core.py, scan_repository_for_supported_files, given
\* the answer r to the tree request: the list returned, or raised when
\* session.get raised
core_scan_repository_for_supported_files(repo, r, files) ==
    IF repo = NullInfo \/ repo.platform # "gitlab" THEN [raised |-> FALSE, files |-> <<>>]
    ELSE IF r.kind = "exc" THEN [raised |-> TRUE, files |-> <<>>]
    ELSE IF r.status # 200 THEN [raised |-> FALSE, files |-> <<>>]
    ELSE [raised |-> FALSE, files |-> supported_files(files)]

\* snyk_sca_validator.py, _extract_file_paths_from_project: the paths of
\* list(set(file_paths)); the list has them in an arbitrary order
extract_file_paths_from_project(attrs) ==
    (IF attrs.target_file # <<>> THEN {attrs.target_file} ELSE {})
        \cup {attrs.files[i] : i \in 1..Len(attrs.files)}

\* the lists that hold each element of S once
Orderings(S) ==
    {f \in [1..Cardinality(S) -> S] : \A i, j \in 1..Cardinality(S) : f[i] = f[j] => i = j}

\* snyk_sca_validator.py, validate_file for a repository that is not local,
\* given the answer r to the file request
validate_file(repo, path, root, r) ==
    [full_path |-> full_path_of(root, path), exists |-> check_file_exists(repo, r)]

\* GitLab's answer to the request for the file at full_path of a repository
\* that holds tree_data
file_answer(tree_data, full_path) ==
    IF \E i \in 1..Len(tree_data) :
           tree_data[i].type = "blob" /\ tree_data[i].path = full_path
    THEN FileResponse(200)
    ELSE FileResponse(404)

RECURSIVE count_files(_, _)
\* validate_project: the counters after the loop over `files`
count_files(counters, files) ==
    IF files = <<>> THEN counters
    ELSE count_files(count_file(counters, Head(files).exists), Tail(files))

\* get_project_details returned None
NoDetails == [root |-> <<>>, target_file |-> <<"?">>, files |-> <<>>]

\* snyk_sca_validator.py, validate_project: details are the attributes of
\* get_project_details' answer, file_paths the list extracted from them,
\* answers[i] the answer to the file request for file_paths[i]
validate_project(repo, details, file_paths, answers) ==
    IF details = NoDetails
    THEN [error |-> "Could not get project details", root_dir |-> <<>>,
          files_validated |-> 0, files_missing |-> 0, files_present |-> 0,
          files |-> <<>>]
    ELSE LET files == [i \in 1..Len(file_paths) |->
                          validate_file(repo, file_paths[i], details.root, answers[i])]
             counters == count_files(NewProjectResult, files)
         IN  [error |-> "none", root_dir |-> details.root,
              files_validated |-> counters.files_validated,
              files_missing |-> counters.files_missing,
              files_present |-> counters.files_present,
              files |-> files]

\* (mutant of detect_missing_snyk_files: the tracked files are not taken out)
detect_missing_keep_tracked(projects, scanned) ==
    LET tracked_files == UNION {extract_file_paths_from_project(projects[i]) :
                                   i \in 1..Len(projects)}
    IN  [error |-> "none",
         total_supported_files |-> Len(scanned),
         currently_tracked |-> Cardinality(tracked_files),
         missing_files |-> scanned,
         missing_count |-> Len(scanned)]

\* snyk_sca_validator.py, detect_missing_snyk_files, given the projects
\* get_projects_for_target returned and the files the scan found
detect_missing_snyk_files(projects, scanned) ==
    LET tracked_files == UNION {extract_file_paths_from_project(projects[i]) :
                                   i \in 1..Len(projects)}
        untracked(repo_file) == repo_file.file_path \notin tracked_files
        missing_files == SelectSeq(scanned, untracked)
    IN  [error |-> "none",
         total_supported_files |-> Len(scanned),
         currently_tracked |-> Cardinality(tracked_files),
         missing_files |-> missing_files,
         missing_count |-> Len(missing_files)]

\* validate_target: missing_snyk_files when detect_missing_snyk_files raised
MissingFilesError ==
    [error |-> "raised", total_supported_files |-> 0, currently_tracked |-> 0,
     missing_files |-> <<>>, missing_count |-> 0]

\* the repository trees and the projects of a target
s_package_json == <<"p", "a", "c", "k", "a", "g", "e", ".", "j", "s", "o", "n">>
s_Gemfile == <<"G", "e", "m", "f", "i", "l", "e">>
s_README_md == <<"R", "E", "A", "D", "M", "E", ".", "m", "d">>
s_main_tf == <<"m", "a", "i", "n", ".", "t", "f">>
TreeEntries ==
    {TreeEntry("blob", s_package_json),
     TreeEntry("blob", s_app \o <<"/">> \o s_package_json),
     TreeEntry("blob", s_x \o s_Gemfile),
     TreeEntry("blob", s_README_md),
     TreeEntry("blob", s_main_tf),
     TreeEntry("tree", s_app)}
Trees == UNION {[1..n -> TreeEntries] : n \in 0..MaxTreeEntries}
ProjectAttributes ==
    {[root |-> <<>>, target_file |-> s_package_json, files |-> <<>>],
     [root |-> s_app, target_file |-> s_package_json, files |-> <<>>],
     [root |-> <<>>, target_file |-> s_app \o <<"/">> \o s_package_json, files |-> <<>>],
     [root |-> <<>>, target_file |-> <<>>, files |-> <<s_main_tf, s_package_json>>]}
TargetProjects == UNION {[1..n -> ProjectAttributes] : n \in 0..MaxTargetProjects}
\* the GitLab repository that is scanned
ScanRepo ==
    RepoInfo({"platform", "host", "owner", "repo", "branch"}, "gitlab",
             s_gitlab_com, s_g, s_repo, s_main)

\* ------------------------------------------------------- main's run loop
\* what validate_target meets for one target: the url attribute, and what
\* get_projects_for_target and validate_project give (asked for only when
\* the url parses)
RunTargets ==
    {t \in [url : TargetUrls, got : ProjectFetches] :
        parse_repo_url(t.url) = NullInfo => t.got = [kind |-> "list", projects |-> <<>>]}
RunTargetLists == UNION {[1..n -> RunTargets] : n \in 0..MaxRunTargets}

\* the kinds of request validate_target sends for such a target; asked says
\* that its url parsed.  A file request is sent by check_file_exists, for
\* each file validate_project validates: none for a project whose details
\* could not be had or that declares no file
target_requests(asked, t) ==
    IF ~asked THEN {}
    ELSE {"projects"}
         \cup (IF /\ \E i \in 1..Len(t.got.projects) : t.got.projects[i].files_validated > 0
                  /\ file_requested("snyk_sca_validator", parse_repo_url(t.url))
               THEN {"file"} ELSE {})

RECURSIVE validate_targets(_, _, _)
RECURSIVE after_validate_target(_, _, _, _)
\* validate_organization: the rest of the loop body for target k, whose
\* validate_target gives target_result unless get_projects_for_target
\* raises; the exception leaves the loop and validate_organization
after_validate_target(out, targets, k, target_result) ==
    IF target_result.error # "Could not parse repository URL"
       /\ targets[k].got.kind = "raise"
    THEN [out EXCEPT !.raised = TRUE, !.requests = @ \cup {"projects"}]
    ELSE validate_targets(
            [out EXCEPT
                !.results = add_target(@, target_result),
                !.requests = @ \cup target_requests(
                    target_result.error # "Could not parse repository URL", targets[k])],
            targets, k + 1)
\* validate_organization: `for target in targets:` from target k on, given
\* org_results and the kinds of request sent so far
validate_targets(out, targets, k) ==
    IF k > Len(targets) THEN out
    ELSE after_validate_target(out, targets, k,
            validate_target(k, targets[k].url, targets[k].got.projects))

\* (mutant of validate_organization: the targets of an organization that is
\* not accessible are listed and validated all the same)
validate_organization_anyway(access, targets) ==
    validate_targets(
        [raised |-> FALSE,
         results |-> IF access THEN NewOrgResults ELSE InaccessibleOrgResults,
         requests |-> {"access", "targets"}],
        targets, 1)

\* snyk_sca_validator.py, validate_organization, given what
\* validate_organization_access returned and the targets get_targets_for_org
\* returned: whether it raised, the dict it returned, the kinds of request
\* it sent
validate_organization(access, targets) ==
    IF ~access
    THEN [raised |-> FALSE, results |-> InaccessibleOrgResults, requests |-> {"access"}]
    ELSE validate_targets(
            [raised |-> FALSE, results |-> NewOrgResults,
             requests |-> {"access", "targets"}],
            targets, 1)

\* (mutant of collect: what an organization gathered before it raised is
\* collected too)
collect_partial(results, org_id, out) ==
    Append(results, [org_id |-> org_id, result |-> out.results])

\* main: the body of `for org in orgs_to_validate:` after the call
collect(results, org_id, out) ==
    IF out.raised THEN results
    ELSE Append(results, [org_id |-> org_id, result |-> out.results])

RECURSIVE total(_, _)
\* sum(r[counter] for r in results)
total(results, counter) ==
    IF results = <<>> THEN 0
    ELSE Head(results).result[counter] + total(Tail(results), counter)

\* snyk_sca_validator.py, generate_report: the totals of the summary
generate_report(results) ==
    [total_orgs |-> Len(results),
     total_targets |-> total(results, "targets_processed"),
     total_projects |-> total(results, "projects_processed"),
     total_files |-> total(results, "files_validated"),
     total_missing |-> total(results, "files_missing"),
     total_present |-> total(results, "files_present")]

\* what validate_project returns for the projects of a target: the details
\* are not to be had, or the project declares no file, one file or two, the
\* files are gone through in any order of list(set(file_paths)), and each
\* file request is answered 200, 404 or not at all
CountedProjects ==
    LET none == [root |-> <<>>, target_file |-> <<>>, files |-> <<>>]
        one == [root |-> s_app, target_file |-> s_package_json, files |-> <<>>]
        two == [root |-> <<>>, target_file |-> s_package_json, files |-> <<s_main_tf>>]
    IN  {validate_project(ScanRepo, NoDetails, <<>>, <<>>)}
        \cup {validate_project(ScanRepo, none, paths, <<>>) :
                 paths \in Orderings(extract_file_paths_from_project(none))}
        \cup {validate_project(ScanRepo, one, paths, <<r>>) :
                 paths \in Orderings(extract_file_paths_from_project(one)),
                 r \in {FileResponse(200), FileResponse(404), Exc}}
        \cup {validate_project(ScanRepo, two, paths, <<r1, r2>>) :
                 paths \in Orderings(extract_file_paths_from_project(two)),
                 r1, r2 \in {FileResponse(200), FileResponse(404)}}
\* what validate_target meets for one target of that organization
CountedFetches ==
    {[kind |-> "raise", projects |-> <<>>]}
    \cup {[kind |-> "list", projects |-> ps] :
             ps \in {<<>>} \cup {<<p>> : p \in CountedProjects}
                    \cup {<<validate_project(ScanRepo, NoDetails, <<>>, <<>>), q>> :
                             q \in {p \in CountedProjects : p.files_validated = 1}}}
CountedTargets ==
    {t \in [url : TargetUrls, got : CountedFetches] :
        parse_repo_url(t.url) = NullInfo => t.got = [kind |-> "list", projects |-> <<>>]}
CountedTargetLists == UNION {[1..n -> CountedTargets] : n \in 0..MaxCountTargets}

\* ------------------------------------------------------ reconciliation
\* The catalogs and the reconciliation engine.  CanonicalKey is built from
\* what parse_repo_url makes of a reference; the builder and evaluate()
\* follow the description of the catalogs and of the engine.

\* CanonicalKey: host/full_path of a resolved reference
CanonicalKey(info) == info.host \o <<"/">> \o info.owner \o <<"/">> \o info.repo
\* the reserved key of the unresolvable bucket
Sentinel == <<"?">>
\* the key under which the builder files a target with this source URL
catalog_key(url) ==
    LET info == parse_repo_url(url)
    IN  IF info = NullInfo THEN Sentinel ELSE CanonicalKey(info)

\* references of targets: two spellings of one repository, a second
\* repository, a URL of no known shape and no URL at all
CatalogUrls ==
    {<<>>, target_url,
     Render([scheme |-> s_http, host |-> s_gitlab_com, depth |-> 2,
             marker |-> "none", git |-> TRUE, slash |-> TRUE]),
     Render([scheme |-> s_https, host |-> s_gitlab_com, depth |-> 3,
             marker |-> "none", git |-> FALSE, slash |-> FALSE]),
     Render([scheme |-> s_https, host |-> s_gitlab_com, depth |-> 1,
             marker |-> "none", git |-> FALSE, slash |-> FALSE])}
KeyOf == [u \in CatalogUrls |-> catalog_key(u)]
\* the repositories the host may list: the two above and one that no
\* target refers to
HostKeys ==
    ({KeyOf[u] : u \in CatalogUrls} \ {Sentinel})
    \cup {catalog_key(Render([scheme |-> s_https, host |-> s_h_io, depth |-> 2,
                              marker |-> "none", git |-> FALSE, slash |-> FALSE]))}

\* the scan-target catalog before the first target
NewCatalog == [k \in {Sentinel} |-> <<>>]
\* the builder's add(key, entry): the entry is appended to the list of its
\* key, never overwriting it
add(catalog, key, entry) ==
    [k \in DOMAIN catalog \cup {key} |->
        IF k = key
        THEN (IF k \in DOMAIN catalog THEN Append(catalog[k], entry) ELSE <<entry>>)
        ELSE catalog[k]]
\* the canonical keys of a scan-target catalog: the sentinel is no key of a
\* repository
catalog_keys(catalog) == DOMAIN catalog \ {Sentinel}
\* the targets a catalog holds, whatever their key
catalog_targets(catalog) ==
    UNION {{catalog[k][i] : i \in 1..Len(catalog[k])} : k \in DOMAIN catalog}

\* (mutant of evaluate: the sentinel is joined like the key of a repository)
evaluate_sentinel(host, catalog) ==
    [matched |-> DOMAIN catalog \cap host,
     left_only |-> DOMAIN catalog \ host,
     right_only |-> host \ DOMAIN catalog,
     unresolvable |-> catalog[Sentinel]]
\* evaluate(): set intersection (matched), left-difference (target catalog
\* only), right-difference (host catalog only); the unresolvable bucket is
\* handed on apart from them
evaluate(host, catalog) ==
    [matched |-> catalog_keys(catalog) \cap host,
     left_only |-> catalog_keys(catalog) \ host,
     right_only |-> host \ catalog_keys(catalog),
     unresolvable |-> catalog[Sentinel]]

\* --------------------------------------------------------------- the calls
FirstPc(o) ==
    IF o \in ListOps THEN "page"
    ELSE IF o = "get_targets_for_org" THEN "targets"
    ELSE IF o = "get_organizations_for_group" THEN "group"
    ELSE IF o = "validate_organization" THEN "access"
    ELSE "core_access"

\* no call of SnykAPI is running
FetchIdle ==
    /\ vi = 1
    /\ page = 1
    /\ next_url = [form |-> "abs", page |-> 1, cursor |-> FALSE]
    /\ all_items = <<>>
    /\ response = Exc
    /\ served = <<>>
    /\ result = NoResult
    /\ dropped = FALSE

\* no reference is being parsed
UrlIdle ==
    /\ impl = "none"
    /\ url_in = NoUrl
    /\ repo_info = Pending

\* no organization has been looked at
OrgIdle ==
    /\ accessible = "unknown"
    /\ listing_failures = {}
    /\ tix = 0
    /\ org_results = NoOrgResults
    /\ project_requests = {}

\* detect_duplicate_projects_by_name_pattern has not been called
NoDuplicates == <<"pending">>
DupIdle ==
    /\ all_projects = <<>>
    /\ duplicates = NoDuplicates
\* validate_file has not been called
NoFileResult == [full_path |-> <<>>, exists |-> "pending"]
FileIdle ==
    /\ root_dir = <<>>
    /\ file_path = <<>>
    /\ file_response = NoFileResponse
    /\ file_result = NoFileResult
    /\ project_result = NewProjectResult
\* no repository has been scanned
NoScan == <<"pending">>
NoTargetResult ==
    [projects_processed |-> 0, files_validated |-> 0, files_missing |-> 0,
     files_present |-> 0, projects |-> <<>>,
     missing_snyk_files |-> [MissingFilesError EXCEPT !.error = "pending"]]
ScanIdle ==
    /\ repo_tree = <<>>
    /\ target_projects = <<>>
    /\ tree_response = NoFileResponse
    /\ repo_files = NoScan
    /\ scanned_target = NoTargetResult
\* no run has started
NoReport ==
    [total_orgs |-> 0, total_targets |-> 0, total_projects |-> 0,
     total_files |-> 0, total_missing |-> 0, total_present |-> 0]
RunIdle ==
    /\ orgs_to_validate = <<>>
    /\ oix = 0
    /\ all_results = <<>>
    /\ calls = <<>>
    /\ requests = {}
    /\ report = NoReport

\* nothing has been reconciled
NoMatch == [matched |-> {}, left_only |-> {}, right_only |-> {}, unresolvable |-> <<>>]
ReconIdle ==
    /\ host_catalog = {}
    /\ target_catalog = NewCatalog
    /\ match_result = NoMatch

Init ==
    /\ op \in Ops
    /\ pc = FirstPc(op)
    /\ FetchIdle
    /\ UrlIdle
    /\ OrgIdle
    /\ DupIdle
    /\ FileIdle
    /\ ScanIdle
    /\ ReconIdle
    /\ RunIdle

\* where the caller stands once the listing has returned `items`:
\* validate_organization goes through the targets, if any
AfterReturn(items) ==
    IF op = "validate_organization" /\ items # <<>> THEN "loop" ELSE "done"

\* the step ends an attempt of get_targets_for_org whose accumulated items
\* are returned to no one
Dropping ==
    /\ op = "get_targets_for_org"
    /\ all_items # <<>> /\ all_items' = <<>> /\ result'.items = <<>>

\* the call returns `items` to its caller
Return(items) ==
    /\ pc' = AfterReturn(items)
    /\ result' = Returned(items)
    /\ UNCHANGED <<vi, page>>
    /\ next_url' = None
    /\ all_items' = <<>>

\* the exception leaves the call
Raise ==
    /\ pc' = "raised"
    /\ result' = Raised
    /\ UNCHANGED <<vi, page>>
    /\ next_url' = None
    /\ all_items' = <<>>
    /\ served' = <<>>

\* one pass of the loop body on a 200 JSON response r; `cont` tells whether
\* the loop goes round again
TakePage(r, v, cont) ==
    /\ served' = Append(served, [n |-> r.n, next |-> r.link # None])
    /\ LET all == extend(all_items, PageData(v, page, r.n))
           nxt == normalize_next(r.link)
       IN  IF cont
           THEN /\ all_items' = all
                /\ next_url' = nxt
                /\ page' = page + 1
                /\ UNCHANGED <<pc, vi, result>>
           ELSE /\ pc' = AfterReturn(all)
                /\ result' = Returned(all)
                /\ all_items' = <<>>
                /\ next_url' = None
                /\ UNCHANGED <<vi, page>>

\* get_organizations, get_projects_for_target: one request of the loop
ListRequest ==
    /\ op \in ListOps
    /\ pc = "page"
    /\ \E r \in Responses(page) :
        /\ response' = r
        /\ IF list_outcome(r) = "raise" THEN Raise
           ELSE TakePage(r, 1, loop_continues(normalize_next(r.link)))
    /\ UNCHANGED <<dupVars, fileVars, scanVars, runVars, reconVars>>
    /\ UNCHANGED <<op, urlVars, orgVars>>
    /\ dropped' = (dropped \/ Dropping)

\* (mutant of NextVersion: the items of the attempt that failed are kept)
NextVersionKeeping ==
    /\ vi' = vi + 1
    /\ page' = 1
    /\ next_url' = [form |-> "abs", page |-> 1, cursor |-> FALSE]
    /\ all_items' = all_items
    /\ served' = <<>>
    /\ UNCHANGED <<pc, result>>

\* the fallback loop moves to the next api_version
NextVersion ==
    /\ vi' = vi + 1
    /\ page' = 1
    /\ next_url' = [form |-> "abs", page |-> 1, cursor |-> FALSE]
    /\ all_items' = <<>>
    /\ served' = <<>>
    /\ UNCHANGED <<pc, result>>

\* get_targets_for_org -> _get_targets_with_version: one request of the
\* loop, answered r
TargetsStep(r) ==
    /\ response' = r
    /\ LET o == targets_outcome(r)
           what == IF o = "None" THEN after_none(vi)
                   ELSE IF o = "raise" THEN after_raise(vi)
                   ELSE "page"
       IN  IF what = "page"
           THEN TakePage(r, vi, loop_continues(normalize_next(r.link)))
           ELSE IF what = "next_version" THEN NextVersion
           ELSE Return(<<>>) /\ served' = <<>>

\* get_targets_for_org called on its own
TargetsRequest ==
    /\ op = "get_targets_for_org"
    /\ pc = "targets"
    /\ \E r \in Responses(page) : TargetsStep(r)
    /\ UNCHANGED <<dupVars, fileVars, scanVars, runVars, reconVars>>
    /\ UNCHANGED <<op, urlVars, orgVars>>
    /\ dropped' = (dropped \/ Dropping)

\* get_organizations_for_group -> _get_group_orgs_with_version: one request
GroupRequest ==
    /\ op = "get_organizations_for_group"
    /\ pc = "group"
    /\ \E r \in Responses(page) :
        /\ response' = r
        /\ LET o == group_outcome(r)
           IN  IF o = "raise" THEN Raise
               ELSE IF o = "page" THEN TakePage(r, vi, group_continues(r))
               ELSE IF group_after_none(vi) = "next_version" THEN NextVersion
               ELSE Return(<<>>) /\ served' = <<>>
    /\ UNCHANGED <<dupVars, fileVars, scanVars, runVars, reconVars>>
    /\ UNCHANGED <<op, urlVars, orgVars>>
    /\ dropped' = (dropped \/ Dropping)

\* snyk_sca_validator_core.py, get_targets_for_org ->
\* validate_organization_access: one request of its loop
CoreAccessRequest ==
    /\ op = "core_get_targets_for_org"
    /\ pc = "core_access"
    /\ \E r \in AccessResponses :
        /\ response' = r
        /\ LET o == core_access_outcome(r, vi)
           IN  IF o = "raise"
               THEN Raise /\ UNCHANGED accessible
               ELSE IF o = "next"
               THEN /\ vi' = vi + 1
                    /\ UNCHANGED <<pc, page, next_url, all_items, served, result, accessible>>
               ELSE IF o = "True"
               THEN /\ accessible' = "yes"
                    /\ pc' = "core_targets"
                    /\ vi' = 1
                    /\ UNCHANGED <<page, next_url, all_items, served, result>>
               ELSE /\ accessible' = "no"
                    /\ Return(<<>>)
                    /\ UNCHANGED served
    /\ UNCHANGED <<dupVars, fileVars, scanVars, runVars, reconVars>>
    /\ UNCHANGED <<op, urlVars, listing_failures, tix, org_results, project_requests>>
    /\ dropped' = (dropped \/ Dropping)

\* snyk_sca_validator_core.py, get_targets_for_org ->
\* _get_targets_with_version: the one request of a version
CoreTargetsRequest ==
    /\ op = "core_get_targets_for_org"
    /\ pc = "core_targets"
    /\ \E r \in Responses(1) :
        /\ response' = r
        /\ LET o == core_targets_outcome(r)
           IN  IF o = "raise"
               THEN Raise /\ UNCHANGED listing_failures
               ELSE IF o = "page"
               THEN /\ TakePage(r, vi, FALSE)
                    /\ UNCHANGED listing_failures
               ELSE /\ listing_failures' = listing_failures \cup {FailClass(r)}
                    /\ IF core_after_none(vi) = "next_version" THEN NextVersion
                       ELSE Return(<<>>) /\ served' = <<>>
    /\ UNCHANGED <<dupVars, fileVars, scanVars, runVars, reconVars>>
    /\ UNCHANGED <<op, urlVars, accessible, tix, org_results, project_requests>>
    /\ dropped' = (dropped \/ Dropping)

Next ==
    \/ ListRequest
    \/ TargetsRequest
    \/ GroupRequest
    \/ CoreAccessRequest
    \/ CoreTargetsRequest

Spec == Init /\ [][Next]_vars

\* ------------------------------------------------ parse_repo_url applied
InitUrl ==
    /\ op = "parse_repo_url"
    /\ pc = "parse"
    /\ FetchIdle
    /\ OrgIdle
    /\ DupIdle
    /\ FileIdle
    /\ ScanIdle
    /\ ReconIdle
    /\ RunIdle
    /\ impl \in Impls
    /\ url_in \in UrlInputs
    /\ repo_info = Pending

ParseRepoUrl ==
    /\ pc = "parse"
    /\ repo_info' = Resolve(impl, Render(url_in))
    /\ pc' = "done"
    /\ UNCHANGED <<dupVars, fileVars, scanVars, runVars, reconVars>>
    /\ UNCHANGED <<op, vi, page, next_url, all_items, response, served, result,
                   impl, url_in, orgVars>>
    /\ dropped' = (dropped \/ Dropping)

NextUrl == ParseRepoUrl

SpecUrl == InitUrl /\ [][NextUrl]_vars

\* parse_repo_url applied to references of every shape
InitRef ==
    /\ op = "parse_repo_url"
    /\ pc = "parse"
    /\ FetchIdle
    /\ OrgIdle
    /\ DupIdle
    /\ FileIdle
    /\ ScanIdle
    /\ ReconIdle
    /\ RunIdle
    /\ impl \in Impls
    /\ url_in \in RefInputs
    /\ repo_info = Pending

SpecRef == InitRef /\ [][NextUrl]_vars

\* ------------------------------------------------- validate_organization
InitOrg ==
    /\ op \in OrgOps
    /\ pc = FirstPc(op)
    /\ FetchIdle
    /\ UrlIdle
    /\ OrgIdle
    /\ DupIdle
    /\ FileIdle
    /\ ScanIdle
    /\ ReconIdle
    /\ RunIdle

\* validate_organization -> validate_organization_access: one request of its
\* loop; on False validate_organization returns at once
AccessRequest ==
    /\ op = "validate_organization"
    /\ pc = "access"
    /\ \E r \in AccessResponses :
        /\ response' = r
        /\ LET o == access_outcome(r, vi)
           IN  IF o = "next"
               THEN /\ vi' = vi + 1
                    /\ UNCHANGED <<pc, accessible, org_results>>
               ELSE IF o = "True"
               THEN /\ accessible' = "yes"
                    /\ pc' = "targets"
                    /\ vi' = 1
                    /\ UNCHANGED org_results
               ELSE /\ accessible' = "no"
                    /\ pc' = "done"
                    /\ org_results' = InaccessibleOrgResults
                    /\ UNCHANGED vi
    /\ UNCHANGED <<dupVars, fileVars, scanVars, runVars, reconVars>>
    /\ UNCHANGED <<op, page, next_url, all_items, served, result, urlVars,
                   listing_failures, tix, project_requests>>
    /\ dropped' = (dropped \/ Dropping)

\* validate_organization -> get_targets_for_org: one request; org_results is
\* built when the listing has returned
OrgTargetsRequest ==
    /\ op = "validate_organization"
    /\ pc = "targets"
    /\ \E r \in OrgResponses(page) :
        /\ TargetsStep(r)
        /\ listing_failures' = IF targets_outcome(r) = "page" THEN listing_failures
                               ELSE listing_failures \cup {FailClass(r)}
    /\ org_results' = IF pc' = "targets" THEN org_results ELSE NewOrgResults
    /\ UNCHANGED <<dupVars, fileVars, scanVars, runVars, reconVars>>
    /\ UNCHANGED <<op, urlVars, accessible, tix, project_requests>>
    /\ dropped' = (dropped \/ Dropping)

\* validate_organization: one pass of `for target in targets:`; an exception
\* of get_projects_for_target leaves validate_target and
\* validate_organization
ValidateTarget ==
    /\ op = "validate_organization"
    /\ pc = "loop"
    /\ tix < Len(result.items)
    /\ \E url \in TargetUrls, got \in ProjectFetches :
        LET asked == parse_repo_url(url) # NullInfo
        IN  /\ ~asked => got.projects = <<>> /\ got.kind = "list"
            /\ project_requests' = IF asked THEN project_requests \cup {tix + 1}
                                   ELSE project_requests
            /\ IF asked /\ got.kind = "raise"
               THEN /\ pc' = "raised"
                    /\ UNCHANGED <<tix, org_results>>
               ELSE /\ org_results' = add_target(org_results,
                            validate_target(result.items[tix + 1], url, got.projects))
                    /\ tix' = tix + 1
                    /\ pc' = IF tix + 1 = Len(result.items) THEN "done" ELSE "loop"
    /\ UNCHANGED <<dupVars, fileVars, scanVars, runVars, reconVars>>
    /\ UNCHANGED <<op, vi, page, next_url, all_items, response, served, result,
                   urlVars, accessible, listing_failures>>
    /\ dropped' = (dropped \/ Dropping)

NextOrg ==
    \/ AccessRequest
    \/ OrgTargetsRequest
    \/ ValidateTarget
    \/ CoreAccessRequest
    \/ CoreTargetsRequest

SpecOrg == InitOrg /\ [][NextOrg]_vars

\* detect_duplicate_projects_by_name_pattern applied to a list of projects
InitDup ==
    /\ op = "detect_duplicate_projects_by_name_pattern"
    /\ pc = "detect"
    /\ FetchIdle
    /\ UrlIdle
    /\ OrgIdle
    /\ FileIdle
    /\ ScanIdle
    /\ ReconIdle
    /\ RunIdle
    /\ all_projects \in ProjectLists
    /\ duplicates = NoDuplicates

DetectDuplicates ==
    /\ op = "detect_duplicate_projects_by_name_pattern"
    /\ pc = "detect"
    /\ duplicates' = detect_duplicate_projects_by_name_pattern(all_projects)
    /\ pc' = "done"
    /\ UNCHANGED <<op, vi, page, next_url, all_items, response, served, result,
                   urlVars, orgVars, all_projects, fileVars, scanVars,
                   runVars, dropped, reconVars>>

NextDup == DetectDuplicates

SpecDup == InitDup /\ [][NextDup]_vars

\* the detection applied to the lists of OrderedLists
InitOrder ==
    /\ op = "detect_duplicate_projects_by_name_pattern"
    /\ pc = "detect"
    /\ FetchIdle
    /\ UrlIdle
    /\ OrgIdle
    /\ FileIdle
    /\ ScanIdle
    /\ ReconIdle
    /\ RunIdle
    /\ all_projects \in OrderedLists
    /\ duplicates = NoDuplicates

SpecOrder == InitOrder /\ [][NextDup]_vars

\* validate_file applied to a file of a project; under snyk_sca_validator.py
\* as the body of validate_project's loop over the files
InitFile ==
    /\ op = "validate_file"
    /\ pc = "file"
    /\ FetchIdle
    /\ OrgIdle
    /\ DupIdle
    /\ ScanIdle
    /\ ReconIdle
    /\ RunIdle
    /\ impl \in Impls
    /\ url_in = NoUrl
    /\ repo_info \in FileRepos
    /\ root_dir \in Roots
    /\ file_path \in FilePaths
    /\ file_response = NoFileResponse
    /\ file_result = NoFileResult
    /\ project_result = NewProjectResult

ValidateFile ==
    /\ op = "validate_file"
    /\ pc = "file"
    /\ \E r \in FileResponses :
        LET full_path == IF impl = "snyk_sca_validator"
                         THEN full_path_of(root_dir, file_path)
                         ELSE core_full_path_of(root_dir, file_path)
            exists == IF impl = "snyk_sca_validator"
                      THEN check_file_exists(repo_info, r)
                      ELSE core_check_file_exists(repo_info, r)
        IN  /\ file_response' = IF file_requested(impl, repo_info) THEN r
                                ELSE NoFileResponse
            /\ IF exists = "raise"
               THEN /\ pc' = "raised"
                    /\ UNCHANGED <<file_result, project_result>>
               ELSE /\ pc' = "done"
                    /\ file_result' = [full_path |-> full_path, exists |-> exists]
                    /\ project_result' = IF impl = "snyk_sca_validator"
                                         THEN count_file(project_result, exists)
                                         ELSE project_result
    /\ UNCHANGED <<op, vi, page, next_url, all_items, response, served, result,
                   urlVars, orgVars, dupVars, root_dir, file_path, scanVars,
                   runVars, dropped, reconVars>>

NextFile == ValidateFile

SpecFile == InitFile /\ [][NextFile]_vars

\* validate_target from the loop over the target's projects on, and the scan
\* of snyk_sca_validator_core.py, for a GitLab repository
InitScan ==
    /\ op = "scan"
    /\ pc = "scan"
    /\ FetchIdle
    /\ OrgIdle
    /\ DupIdle
    /\ FileIdle
    /\ impl \in Impls
    /\ url_in = NoUrl
    /\ RunIdle
    /\ ReconIdle
    /\ repo_info = ScanRepo
    /\ repo_tree \in Trees
    /\ target_projects \in IF impl = "snyk_sca_validator" THEN TargetProjects ELSE {<<>>}
    /\ tree_response = NoFileResponse
    /\ repo_files = NoScan
    /\ scanned_target = NoTargetResult

\* the answers to the tree request
TreeResponses == {Exc, FileResponse(200), FileResponse(404), FileResponse(500)}

\* the orders in which the file paths of each project can be gone through
FileOrders(projects) ==
    LET orders(i) == Orderings(extract_file_paths_from_project(projects[i]))
    IN  {f \in [1..Len(projects) -> UNION {orders(i) : i \in 1..Len(projects)}] :
            \A i \in 1..Len(projects) : f[i] \in orders(i)}

\* snyk_sca_validator.py, validate_target: the loop over projects, each
\* validated against the repository, then detect_missing_snyk_files, whose
\* own get_projects_for_target gives the same list or raises
ValidateTargetFiles ==
    /\ op = "scan"
    /\ pc = "scan"
    /\ impl = "snyk_sca_validator"
    /\ \E r \in TreeResponses, relisted \in BOOLEAN, order \in FileOrders(target_projects) :
        LET answers(i) == [k \in 1..Len(order[i]) |->
                file_answer(repo_tree,
                            full_path_of(target_projects[i].root, order[i][k]))]
            results == [i \in 1..Len(target_projects) |->
                validate_project(repo_info, target_projects[i], order[i], answers(i))]
            scanned == scan_gitlab_repository(r, repo_tree)
        IN  /\ tree_response' = IF relisted THEN r ELSE NoFileResponse
            /\ repo_files' = IF relisted THEN scanned ELSE NoScan
            /\ scanned_target' =
                [add_projects(NoTargetResult, results) EXCEPT
                    !.missing_snyk_files =
                        IF relisted THEN detect_missing_snyk_files(target_projects, scanned)
                        ELSE MissingFilesError]
    /\ pc' = "done"
    /\ UNCHANGED <<op, vi, page, next_url, all_items, response, served, result,
                   urlVars, orgVars, dupVars, fileVars, repo_tree, target_projects,
                   runVars, dropped, reconVars>>

\* snyk_sca_validator_core.py, scan_repository_for_supported_files
CoreScan ==
    /\ op = "scan"
    /\ pc = "scan"
    /\ impl = "snyk_sca_validator_core"
    /\ \E r \in TreeResponses :
        LET scanned == core_scan_repository_for_supported_files(repo_info, r, repo_tree)
        IN  /\ tree_response' = r
            /\ IF scanned.raised
               THEN pc' = "raised" /\ UNCHANGED repo_files
               ELSE pc' = "done" /\ repo_files' = scanned.files
    /\ UNCHANGED <<op, vi, page, next_url, all_items, response, served, result,
                   urlVars, orgVars, dupVars, fileVars, repo_tree, target_projects,
                   scanned_target, runVars, dropped, reconVars>>

NextScan == ValidateTargetFiles \/ CoreScan

SpecScan == InitScan /\ [][NextScan]_vars

\* main from the run loop on: the organizations are numbered in list order
InitRun ==
    /\ op = "main"
    /\ pc = "run"
    /\ FetchIdle
    /\ UrlIdle
    /\ OrgIdle
    /\ DupIdle
    /\ FileIdle
    /\ ScanIdle
    /\ ReconIdle
    /\ orgs_to_validate \in {[i \in 1..n |-> i] : n \in 0..MaxOrgs}
    /\ oix = 0
    /\ all_results = <<>>
    /\ calls = <<>>
    /\ requests = {}
    /\ report = NoReport

\* main: one pass of `for org in orgs_to_validate:`
ValidateOrganization ==
    /\ op = "main"
    /\ pc = "run"
    /\ oix < Len(orgs_to_validate)
    /\ \E access \in BOOLEAN, targets \in RunTargetLists,
          org_id \in {orgs_to_validate[oix + 1]} :
        \E out \in {validate_organization(access, targets)} :
            /\ calls' = Append(calls, [org_id |-> org_id, accessible |-> access,
                                       raised |-> out.raised])
            /\ requests' = requests \cup {<<org_id, kind>> : kind \in out.requests}
            /\ all_results' = collect(all_results, org_id, out)
    /\ oix' = oix + 1
    /\ UNCHANGED <<op, pc, vi, page, next_url, all_items, response, served, result,
                   urlVars, orgVars, dupVars, fileVars, scanVars,
                   orgs_to_validate, report, dropped, reconVars>>

\* main: the loop is over, generate_report(all_results)
GenerateReport ==
    /\ op = "main"
    /\ pc = "run"
    /\ oix = Len(orgs_to_validate)
    /\ report' = generate_report(all_results)
    /\ pc' = "done"
    /\ UNCHANGED <<op, vi, page, next_url, all_items, response, served, result,
                   urlVars, orgVars, dupVars, fileVars, scanVars,
                   orgs_to_validate, oix, all_results, calls, requests, dropped, reconVars>>

NextRun == ValidateOrganization \/ GenerateReport

SpecRun == InitRun /\ [][NextRun]_vars

\* the run with its steps taken as long as one is possible
SpecRunFair == SpecRun /\ WF_vars(NextRun)

\* validate_organization called by the run loop for one organization, with
\* the projects validated file by file
InitCount ==
    /\ op = "validate_organization_files"
    /\ pc = "run"
    /\ FetchIdle
    /\ UrlIdle
    /\ OrgIdle
    /\ DupIdle
    /\ FileIdle
    /\ ScanIdle
    /\ ReconIdle
    /\ orgs_to_validate = <<1>>
    /\ oix = 0
    /\ all_results = <<>>
    /\ calls = <<>>
    /\ requests = {}
    /\ report = NoReport

CountOrganization ==
    /\ op = "validate_organization_files"
    /\ pc = "run"
    /\ \E access \in BOOLEAN, targets \in CountedTargetLists :
        \E out \in {validate_organization(access, targets)} :
            /\ calls' = Append(calls, [org_id |-> 1, accessible |-> access,
                                       raised |-> out.raised])
            /\ requests' = requests \cup {<<1, kind>> : kind \in out.requests}
            /\ all_results' = collect(all_results, 1, out)
            /\ pc' = IF out.raised THEN "raised" ELSE "done"
    /\ oix' = 1
    /\ UNCHANGED <<op, vi, page, next_url, all_items, response, served, result,
                   urlVars, orgVars, dupVars, fileVars, scanVars,
                   orgs_to_validate, report, dropped, reconVars>>

NextCount == CountOrganization

SpecCount == InitCount /\ [][NextCount]_vars

\* the catalog builders and the reconciliation engine: the host catalog is
\* any set of the host's repositories, the scan-target catalog is built one
\* target at a time, and evaluate() joins the two
InitReconcile ==
    /\ op = "evaluate"
    /\ pc = "build"
    /\ FetchIdle
    /\ UrlIdle
    /\ OrgIdle
    /\ DupIdle
    /\ FileIdle
    /\ ScanIdle
    /\ RunIdle
    /\ host_catalog \in SUBSET HostKeys
    /\ target_catalog = NewCatalog
    /\ match_result = NoMatch

AddTarget ==
    /\ op = "evaluate"
    /\ pc = "build"
    /\ Cardinality(catalog_targets(target_catalog)) < MaxCatalogTargets
    /\ \E url \in CatalogUrls :
        target_catalog' =
            add(target_catalog, KeyOf[url],
                [target_id |-> Cardinality(catalog_targets(target_catalog)) + 1,
                 source_url |-> url])
    /\ UNCHANGED <<fetchVars, urlVars, orgVars, dupVars, fileVars, scanVars, runVars,
                   host_catalog, match_result>>

Evaluate ==
    /\ op = "evaluate"
    /\ pc = "build"
    /\ match_result' = evaluate(host_catalog, target_catalog)
    /\ pc' = "evaluated"
    /\ UNCHANGED <<op, vi, page, next_url, all_items, response, served, result,
                   dropped, urlVars, orgVars, dupVars, fileVars, scanVars, runVars,
                   host_catalog, target_catalog>>

NextReconcile == AddTarget \/ Evaluate

SpecReconcile == InitReconcile /\ [][NextReconcile]_vars

\* ================================================================== claims
\* the positions at which the next step is a list request
ReqPcs == {"page", "targets", "group"}
\* the positions at which the next step is a request of get_targets_for_org
TargetPcs == {"targets", "core_targets"}
\* the version list get_targets_for_org goes through
TargetVersions == IF pc = "core_targets" THEN core_target_versions ELSE api_versions
\* the positions at which the next step is a request of the access check
AccessPcs == {"access", "core_access"}
AccessVersions == IF pc = "core_access" THEN core_access_versions ELSE api_versions
\* the target listing has returned
Listed == op \in OrgOps /\ accessible = "yes" /\ pc \notin TargetPcs
\* ... a list taken from 200 responses
ListedOk == Listed /\ served # <<>>
\* ... the empty list, every version of the list having failed
ListingExhausted == Listed /\ served = <<>> /\ result = Returned(<<>>)
\* the version index whose pages the running attempt accumulates
AttemptVersion == IF op \in ListOps THEN 1 ELSE vi
\* the request failed: transport failure, error status, or a body that is
\* not JSON
Failed(r) == ~IsOkPage(r)
\* an error status other than 401, 403, 404
GenericError(r) == r.kind = "http" /\ r.status \notin {200, 401, 403, 404}

RECURSIVE ConcatPages(_, _, _)
\* the data of pages 1..k of version v, of the sizes the history h records
ConcatPages(v, h, k) ==
    IF k = 0 THEN <<>> ELSE ConcatPages(v, h, k - 1) \o PageData(v, k, h[k].n)

\* three non-empty pages chained by links.next, then an empty page with no
\* next link
ThreePagesThenEmpty ==
    /\ Len(served) = 4
    /\ \A k \in 1..3 : served[k].n > 0 /\ served[k].next
    /\ served[4].n = 0 /\ ~served[4].next

\* C1: get_organizations, _get_targets_with_version and get_projects_for_target,
\* served three non-empty pages chained by links.next and then an empty page
\* without next link, return exactly the items of the three pages, in page
\* order.
C1_Pagination ==
    (op \in ListOps \cup {"get_targets_for_org"} /\ ThreePagesThenEmpty)
        => /\ pc = "done"
           /\ result = Returned(ConcatPages(AttemptVersion, served, 3))
C1_Witness ==
    /\ op = "get_targets_for_org"
    /\ ThreePagesThenEmpty
    /\ pc = "done"
    /\ Len(result.items) > 3

\* C2: get_targets_for_org, when a version's request is answered 404 and a
\* later version exists, tries the next version from page 1 with nothing
\* accumulated; when every earlier version was answered 404 and the listing
\* then succeeded, the call has returned (not raised) exactly the pages
\* served under that later version, and the organization result
\* validate_organization returns carries no error field.
C2_FallbackAfter404 ==
    /\ [][(pc \in TargetPcs /\ response'.kind = "http" /\ response'.status = 404
                /\ vi < Len(TargetVersions))
            => /\ pc' = pc /\ vi' = vi + 1 /\ page' = 1
               /\ all_items' = <<>> /\ result' = NoResult]_vars
    /\ []((ListedOk /\ listing_failures = {"404"})
            => /\ vi > 1
               /\ result = Returned(ConcatPages(vi, served, Len(served)))
               /\ (op = "validate_organization" /\ pc = "done")
                    => /\ org_results.error = "none"
                       /\ org_results.targets_processed = Len(result.items)
                       /\ \A k \in 1..Len(result.items) :
                            org_results.targets[k].target_id = result.items[k])
C2_Witness ==
    /\ op = "validate_organization" /\ pc = "done"
    /\ listing_failures = {"404"} /\ vi = 2
    /\ result = Returned(<<<<2, 1, 1>>, <<2, 2, 1>>>>)
    /\ org_results.error = "none" /\ org_results.targets_processed = 2

\* C3 as claimed: a generic server error on a targets request does not make
\* get_targets_for_org try the next API version.
C3_NoFallbackOnServerError ==
    [][(pc \in TargetPcs /\ GenericError(response')) => vi' = vi]_vars
\* What the code does instead: in both files a generic server error ends the
\* version attempt
\* the way 404, 401 and 403 do: the next API version is tried from page 1
\* with an empty accumulator, and after the last version the empty list is
\* returned.
C3_FallbackOnServerError ==
    [][(pc \in TargetPcs /\ GenericError(response'))
        => IF vi < Len(TargetVersions)
           THEN vi' = vi + 1 /\ pc' = pc /\ page' = 1 /\ all_items' = <<>>
           ELSE vi' = vi /\ pc' = "done" /\ result' = Returned(<<>>)]_vars
C3_Witness ==
    /\ pc = "targets" /\ vi = 2 /\ page = 1
    /\ response = ErrorResponse(500)

\* C4 as claimed: after a 401 or 403 the access check tries the next version
\* of its list; it does not return False, and validate_organization does not
\* skip the organization, before the last version.
C4_DeniedTriesNextVersion ==
    [][(pc \in AccessPcs /\ response'.kind = "http" /\ response'.status \in {401, 403}
            /\ vi < Len(AccessVersions))
        => pc' = pc /\ vi' = vi + 1 /\ accessible' = "unknown"]_vars
\* C4 amended: a 401 or 403 ends the access check at once with False,
\* whatever version was being tried: validate_organization returns the
\* "Organization not accessible" result and the core get_targets_for_org
\* returns the empty list, no target being requested.  Only 404 and the
\* other error statuses move on to the next version, and give False after
\* the last one.
C4_DeniedGivesUpAtOnce ==
    [][(pc \in AccessPcs /\ response'.kind = "http" /\ response'.status # 200)
        => IF response'.status \in {401, 403} \/ vi = Len(AccessVersions)
           THEN /\ accessible' = "no" /\ vi' = vi /\ pc' = "done"
                /\ served' = <<>>
                /\ IF op = "validate_organization"
                   THEN org_results' = InaccessibleOrgResults
                   ELSE result' = Returned(<<>>)
           ELSE pc' = pc /\ vi' = vi + 1 /\ accessible' = "unknown"]_vars
C4_Witness ==
    /\ op = "validate_organization" /\ pc = "done"
    /\ accessible = "no" /\ vi = 1
    /\ response = ErrorResponse(403)
    /\ org_results = InaccessibleOrgResults

\* C5 as claimed: for an accessible organization, what the caller gets when
\* the target listing failed under every version differs from what it gets
\* when the listing succeeded with zero targets, which is NewOrgResults from
\* validate_organization and the empty list from the core get_targets_for_org.
C5_ExhaustionDistinguishable ==
    (ListingExhausted /\ pc = "done")
        => IF op = "validate_organization" THEN org_results # NewOrgResults
           ELSE result # Returned(<<>>)
\* the listing succeeded with zero targets
C5_SucceededEmpty ==
    /\ op = "validate_organization" /\ pc = "done"
    /\ ListedOk /\ listing_failures = {}
    /\ result = Returned(<<>>)
    /\ org_results = NewOrgResults
\* the listing failed under every version, with the same organization result
C5_Witness ==
    /\ op = "validate_organization" /\ pc = "done"
    /\ ListingExhausted /\ vi = Len(api_versions)
    /\ listing_failures = {"404"}
    /\ org_results = NewOrgResults

\* C6 as claimed: the pagination loop of each list fetcher stops after the
\* first 200 response that has no next link or an empty data payload.
C6_StopsOnEmptyOrNoNext ==
    [][(pc \in ReqPcs /\ IsOkPage(response')
            /\ (response'.n = 0 \/ response'.link = None))
        => pc' # pc]_vars
\* C6 amended: a fetcher of snyk_sca_validator.py stops after a 200 response
\* exactly when it carries no next link (an empty page with a next link does
\* not end the loop: the next page is requested); _get_group_orgs_with_version
\* stops exactly when the page is empty, has no next link, or its next link
\* has no starting_after cursor.
C6_StopCondition ==
    [][(pc \in ReqPcs /\ IsOkPage(response'))
        => LET stop == IF pc = "group"
                       THEN \/ response'.n = 0
                            \/ response'.link = None
                            \/ ~response'.link.cursor
                       ELSE response'.link = None
           IN  IF stop THEN pc' # pc
               ELSE pc' = pc /\ page' = page + 1 /\ vi' = vi]_vars
C6_Witness ==
    /\ pc = "targets" /\ page = 3
    /\ IsOkPage(response) /\ response.n = 0 /\ response.link # None
    /\ all_items # <<>>

\* C7 as claimed: when the fetch of page k > 1 fails, the fetcher returns the
\* items of pages 1..k-1 it had accumulated.
C7_PartialResultsKept ==
    [][(pc \in ReqPcs /\ page > 1 /\ Failed(response'))
        => pc' = "done" /\ result' = Returned(all_items)]_vars
\* What the code does instead: when the fetch of page k > 1 fails, the items
\* of pages 1..k-1
\* are discarded: get_organizations and get_projects_for_target raise;
\* get_targets_for_org starts again from page 1 under the next version or
\* returns the empty list; get_organizations_for_group raises, starts again
\* under the next version, or returns the empty list.
C7_PartialResultsDropped ==
    [][(pc \in ReqPcs /\ page > 1 /\ Failed(response'))
        => /\ all_items' = <<>>
           /\ \/ pc' = "raised" /\ result' = Raised
              \/ pc' = pc /\ vi' = vi + 1 /\ page' = 1 /\ result' = NoResult
              \/ pc' = "done" /\ result' = Returned(<<>>)
           /\ op \in ListOps => pc' = "raised"]_vars
C7_Witness ==
    /\ op = "get_projects_for_target"
    /\ pc = "raised" /\ page = 3
    /\ response = Exc

\* C8 as claimed: on a 429 the fetcher re-issues the same request (same
\* version, same page) and keeps what it had accumulated.
C8_RetryOn429 ==
    [][(pc \in ReqPcs /\ response'.kind = "http" /\ response'.status = 429)
        => /\ pc' = pc /\ vi' = vi /\ page' = page
           /\ next_url' = next_url /\ all_items' = all_items]_vars
\* What the code does instead: a 429 is handled like every other error
\* status, without wait
\* or retry: the pages accumulated are dropped; get_organizations and
\* get_projects_for_target let the exception reach the caller,
\* get_targets_for_org and get_organizations_for_group switch to the next
\* API version, or return the empty list after the last one.
C8_429IsAnError ==
    [][(pc \in ReqPcs /\ response'.kind = "http" /\ response'.status = 429)
        => /\ all_items' = <<>>
           /\ IF op \in ListOps THEN pc' = "raised" /\ result' = Raised
              ELSE LET last == IF pc = "group" THEN Len(group_versions)
                               ELSE Len(api_versions)
                   IN  IF vi < last
                       THEN pc' = pc /\ vi' = vi + 1 /\ page' = 1 /\ result' = NoResult
                       ELSE pc' = "done" /\ result' = Returned(<<>>)]_vars
C8_Witness ==
    /\ op = "get_projects_for_target"
    /\ pc = "raised" /\ page = 2
    /\ response = ErrorResponse(429)

\* the (host, owner, repo) of a resolved reference
Ident(r) == <<r.host, r.owner, r.repo>>
\* the references that differ from u at most in scheme, .git suffix and
\* trailing slash
Variants(u) ==
    {[u EXCEPT !.scheme = s, !.git = g, !.slash = sl] :
        s \in {s_http, s_https}, g \in BOOLEAN, sl \in BOOLEAN}
Parsed == op = "parse_repo_url" /\ pc = "done"

\* C9 as claimed: a resolvable http(s) reference resolves to the same (host,
\* owner, repo) whatever its scheme (http or https), with or without one
\* trailing slash, with or without .git on its last path segment.
C9_StableUnderVariation ==
    (Parsed /\ repo_info # NullInfo)
        => \A v \in Variants(url_in) :
                Ident(Resolve(impl, Render(v))) = Ident(repo_info)
\* a trailing slash after /-/blob/<b>: parse_repo_url of snyk_sca_validator.py reads
\* ".../g/repo/-/blob/dev/" as (g, repo) and ".../g/repo/-/blob/dev" as
\* (g/repo/-/blob, dev)
C9_Witness ==
    /\ Parsed /\ impl = "snyk_sca_validator"
    /\ url_in = [scheme |-> s_https, host |-> s_gitlab_com, depth |-> 2,
                 marker |-> "blobref", git |-> FALSE, slash |-> TRUE]
    /\ Ident(repo_info) = <<s_gitlab_com, s_g, s_repo>>
    /\ Ident(Resolve(impl, Render([url_in EXCEPT !.slash = FALSE])))
           = <<s_gitlab_com, Join(<<s_g, s_repo, s_dash, s_blob>>, "/"), s_dev>>
\* C9 outside that shape: every other reference of UrlInputs, and every
\* reference under snyk_sca_validator_core.py, resolves to the same (host,
\* owner, repo) in all its variants.
C9_StableElsewhere ==
    (Parsed /\ repo_info # NullInfo
            /\ ~(impl = "snyk_sca_validator" /\ url_in.marker = "blobref"))
        => \A v \in Variants(url_in) :
                Ident(Resolve(impl, Render(v))) = Ident(repo_info)

\* C10 as claimed: lower-casing the host of a resolvable reference leaves
\* the resolved (host, owner, repo) unchanged.
C10_HostCaseInsensitive ==
    (Parsed /\ repo_info # NullInfo)
        => Ident(Resolve(impl, Render([url_in EXCEPT !.host = ToLower(@)])))
               = Ident(repo_info)
\* "https://GitLab.com/g/repo" keeps the host as written
C10_Witness ==
    /\ Parsed
    /\ url_in = [scheme |-> s_https, host |-> s_GitLab_com, depth |-> 2,
                 marker |-> "none", git |-> FALSE, slash |-> FALSE]
    /\ Ident(repo_info) = <<s_GitLab_com, s_g, s_repo>>

\* the groups p1/.../pn of the reference u, and the branch its marker names:
\* the segment after tree or blob as rendered, "main" without marker
GroupPath(u) == Join(SubSeq(RepoPath(u.depth), 1, u.depth - 1), "/")
MarkerBranch(u) ==
    IF u.marker = "none" THEN s_main
    ELSE IF u.marker = "blob" \/ ~u.git THEN s_dev
    ELSE s_dev \o s_dot_git
\* an http(s) reference host/p1/.../pn/repo, n >= 1, with one of the markers
\* /tree/<b>, /-/tree/<b>, /-/blob/<b>/<path> or none, given to
\* parse_repo_url of snyk_sca_validator.py, the host being neither
\* github.com nor bitbucket.org
GitLabStyle ==
    /\ Parsed /\ impl = "snyk_sca_validator"
    /\ url_in.scheme \in {s_http, s_https}
    /\ url_in.host \notin {s_github_com, s_bitbucket_org}
    /\ url_in.depth >= 2
    /\ url_in.marker \in {"none", "tree", "dashtree", "blob"}

\* C11 as claimed: for such a reference the result has repo = the segment
\* before the marker, owner = p1/.../pn and branch = <b>, "main" without
\* marker; the "-" of a marker is neither the repo nor part of the owner.
C11_NestedGroupsAndBranch ==
    GitLabStyle
        => /\ repo_info.repo = s_repo
           /\ repo_info.owner = GroupPath(url_in)
           /\ repo_info.branch = MarkerBranch(url_in)
           /\ repo_info.repo # s_dash
           /\ s_dash \notin {Split(repo_info.owner, "/")[k] :
                                k \in 1..Len(Split(repo_info.owner, "/"))}
\* ".../g/sub/repo/-/tree/dev" is matched by the /tree/ pattern, tried first:
\* owner g/sub/repo, repo "-"
C11_Witness ==
    /\ GitLabStyle
    /\ url_in = [scheme |-> s_https, host |-> s_gitlab_com, depth |-> 3,
                 marker |-> "dashtree", git |-> FALSE, slash |-> FALSE]
    /\ repo_info.owner = Join(<<s_g, s_sub, s_repo>>, "/")
    /\ repo_info.repo = s_dash
    /\ repo_info.branch = s_dev
\* C11 for the markers other than /-/tree/: with /tree/<b>, /-/blob/<b>/<path>
\* or no marker the repo, owner and branch are as claimed.
C11_ExceptDashTree ==
    (GitLabStyle /\ url_in.marker # "dashtree")
        => /\ repo_info.repo = s_repo
           /\ repo_info.owner = GroupPath(url_in)
           /\ repo_info.branch = MarkerBranch(url_in)

\* an SSH reference git@host:s1/.../sn[.git] with n >= 2 has been parsed
SshRef ==
    /\ Parsed
    /\ url_in.scheme = s_git_at
    /\ url_in.depth >= 2
    /\ ~url_in.slash

\* C12 as claimed: an SSH reference with n >= 2 path segments resolves, with
\* the host as given, repo = sn without .git and owner = s1/.../s(n-1).
C12_SshNestedGroups ==
    SshRef
        => /\ repo_info # NullInfo
           /\ repo_info.host = url_in.host
           /\ repo_info.repo = s_repo
           /\ repo_info.owner = GroupPath(url_in)
\* "git@gitlab.com:g/sub/repo.git" is unresolvable for snyk_sca_validator.py
C12_Witness ==
    /\ SshRef /\ impl = "snyk_sca_validator"
    /\ url_in = [scheme |-> s_git_at, host |-> s_gitlab_com, depth |-> 3,
                 marker |-> "none", git |-> TRUE, slash |-> FALSE]
    /\ repo_info = NullInfo
\* C12 where it holds: under snyk_sca_validator_core.py at every depth when
\* the host does not contain ".git", under snyk_sca_validator.py for n = 2.
C12_CoreOrFlat ==
    (SshRef /\ IF impl = "snyk_sca_validator_core"
               THEN ~Contains(url_in.host, s_dot_git)
               ELSE url_in.depth = 2)
        => /\ repo_info # NullInfo
           /\ repo_info.host = url_in.host
           /\ repo_info.repo = s_repo
           /\ repo_info.owner = GroupPath(url_in)

\* C13: under snyk_sca_validator.py a reference whose host is exactly
\* github.com or bitbucket.org is never resolved with platform gitlab, and a
\* reference with any other host is never resolved with platform github or
\* bitbucket.
C13_MatcherOrder ==
    (Parsed /\ impl = "snyk_sca_validator" /\ repo_info # NullInfo)
        => IF url_in.host \in {s_github_com, s_bitbucket_org}
           THEN repo_info.platform # "gitlab"
           ELSE repo_info.platform \notin {"github", "bitbucket"}
\* "https://github.com/g/repo/tree/dev" resolves with platform github, and
\* nothing the generic patterns would have made of it
C13_Witness ==
    /\ Parsed /\ impl = "snyk_sca_validator"
    /\ url_in = [scheme |-> s_https, host |-> s_github_com, depth |-> 2,
                 marker |-> "tree", git |-> FALSE, slash |-> FALSE]
    /\ repo_info.platform = "github"
    /\ repo_info.host = s_github_com
    /\ repo_info.owner = s_g
    /\ repo_info.repo = s_repo
    /\ repo_info.branch = s_dev

\* the platforms of a RepoIdentity
Platforms == {"gitlab", "github", "bitbucket", "local", "unknown"}

\* C15 as claimed: every non-null identity returned by parse_repo_url, for
\* local, SSH and HTTP(S) references alike, has a platform that is one of
\* gitlab, github, bitbucket, local, unknown.
C15_PlatformEnum ==
    (Parsed /\ repo_info # NullInfo) => repo_info.platform \in Platforms
\* "git@gitlab.com:g/repo.git" resolves with platform "git" under
\* snyk_sca_validator.py
C15_Witness ==
    /\ Parsed /\ impl = "snyk_sca_validator"
    /\ url_in = [scheme |-> s_git_at, host |-> s_gitlab_com, depth |-> 2,
                 marker |-> "none", git |-> TRUE, slash |-> FALSE]
    /\ repo_info # NullInfo
    /\ repo_info.platform = "git"
    /\ repo_info.repo = s_repo
\* C15 where it holds: every reference under snyk_sca_validator_core.py, every
\* reference but the SSH ones under snyk_sca_validator.py.
C15_ExceptValidatorSsh ==
    (/\ Parsed /\ repo_info # NullInfo
     /\ (impl = "snyk_sca_validator_core" \/ url_in.scheme # s_git_at))
        => repo_info.platform \in Platforms

\* validate_organization has returned the results of an accessible
\* organization
OrgReturned == op = "validate_organization" /\ pc = "done" /\ accessible = "yes"
\* the target urls parse_repo_url cannot resolve
UnparsedUrls == {url \in TargetUrls : parse_repo_url(url) = NullInfo}
\* the entry validate_target returns for a target whose url does not parse
ErrorEntry(e) ==
    /\ e.error = "Could not parse repository URL"
    /\ e.projects_processed = 0
    /\ e.files_validated = 0
    /\ e.files_missing = 0
    /\ e.files_present = 0
    /\ e.projects = <<>>

\* C14: validate_organization returns exactly one target entry per target of
\* the listing, in fetch order, with targets_processed the number of targets
\* fetched; a target whose url cannot be parsed has an error entry with zero
\* counts, and no project request was made for it.
C14_OneEntryPerTarget ==
    /\ OrgReturned
        => /\ Len(org_results.targets) = Len(result.items)
           /\ org_results.targets_processed = Len(result.items)
           /\ \A k \in 1..Len(result.items) :
                org_results.targets[k].target_id = result.items[k]
    /\ op = "validate_organization"
        => \A k \in 1..Len(org_results.targets) :
            org_results.targets[k].target_url \in UnparsedUrls
                => /\ ErrorEntry(org_results.targets[k])
                   /\ k \notin project_requests
\* two targets were listed, the first without a usable url, the second with
\* one project: two entries in order, a request for the second only
C14_Witness ==
    /\ OrgReturned
    /\ Len(result.items) = 2
    /\ Len(org_results.targets) = 2
    /\ ErrorEntry(org_results.targets[1])
    /\ org_results.targets[2].error = "none"
    /\ org_results.targets[2].projects_processed = 1
    /\ project_requests = {2}

\* detect_duplicate_projects_by_name_pattern has returned
Detected == op = "detect_duplicate_projects_by_name_pattern" /\ pc = "done"
\* the ids of the projects flagged stale
Flagged == {duplicates[i].project_id : i \in 1..Len(duplicates)}
\* the position in all_projects of the project named n, 0 when there is none
Named(n) ==
    IF \E i \in 1..Len(all_projects) : all_projects[i].name = n
    THEN CHOOSE i \in 1..Len(all_projects) : all_projects[i].name = n
    ELSE 0
\* the list holds "proj:./a", "proj:a" and "proj:../x/../a", in any order,
\* under one target
ThreeVariants ==
    /\ Detected
    /\ Len(all_projects) = 3
    /\ {all_projects[i].name : i \in 1..3} = {s_proj_dot_a, s_proj_a, s_proj_up_a}
    /\ \E t \in TargetIds \ {""} : \A i \in 1..3 : all_projects[i].target_id = t

\* C16 as claimed: the three names fall into one duplicate group, so exactly
\* two of the projects are flagged, and the one left has the latest
\* timestamp.
C16_ThreeCollapse ==
    ThreeVariants
        => /\ Len(duplicates) = 2
           /\ Cardinality(Flagged) = 2
           /\ \A i \in (1..3) \ Flagged :
                \A j \in 1..3 : all_projects[i].created >= all_projects[j].created
\* C16, what happens instead: "proj:./a" and "proj:a" normalize to "a" and form
\* one group, "proj:../x/../a" normalizes to "../a" and stays alone: exactly
\* one project is flagged, it is one of the first two and not newer than the
\* other, which it names as duplicate_of; "proj:../x/../a" is not flagged.
C16_TwoCollapse ==
    ThreeVariants
        => /\ Len(duplicates) = 1
           /\ duplicates[1].unique_identifier = s_a
           /\ {duplicates[1].project_id, duplicates[1].duplicate_of}
                = {Named(s_proj_dot_a), Named(s_proj_a)}
           /\ duplicates[1].created <= duplicates[1].duplicate_created
           /\ Named(s_proj_up_a) \notin Flagged
           /\ unique_part(s_proj_up_a) = s_dotdot \o <<"/">> \o s_a
\* the three projects in the order of the claim, the last the newest: only
\* "proj:a" is flagged, as a duplicate of "proj:./a"
C16_Witness ==
    /\ ThreeVariants
    /\ all_projects = <<[name |-> s_proj_dot_a, target_id |-> "t1", created |-> 1],
                        [name |-> s_proj_a, target_id |-> "t1", created |-> 1],
                        [name |-> s_proj_up_a, target_id |-> "t1", created |-> 2]>>
    /\ Flagged = {2}
    /\ duplicates[1].duplicate_of = 1

\* the positions of the projects that share target id and normalized
\* sub-identifier with the project at position i
GroupOf(i) ==
    {j \in 1..Len(all_projects) :
        /\ Find(all_projects[j].name, ":") # 0
        /\ all_projects[j].target_id = all_projects[i].target_id
        /\ unique_part(all_projects[j].name) = unique_part(all_projects[i].name)}
\* the positions of the projects that take part in the detection
Grouped ==
    {i \in 1..Len(all_projects) :
        all_projects[i].target_id # "" /\ Find(all_projects[i].name, ":") # 0}
\* the flagged entries about members of the set G of positions
EntriesOf(G) == {k \in 1..Len(duplicates) : duplicates[k].project_id \in G}

\* C17: of every group of k >= 2 projects exactly k-1 are flagged, once each;
\* the one left (the canonical) is not older than any member; every flagged
\* entry of the group names the canonical's id and name as duplicate_of /
\* duplicate_of_name, never its own; a group of one has no flagged entry.
C17_GroupFlags ==
    Detected
        => \A i \in Grouped :
            LET G == GroupOf(i)
            IN  IF Cardinality(G) = 1 THEN EntriesOf(G) = {}
                ELSE /\ Cardinality(G \cap Flagged) = Cardinality(G) - 1
                     /\ Cardinality(EntriesOf(G)) = Cardinality(G) - 1
                     /\ \A c \in G \ Flagged :
                         /\ \A j \in G : all_projects[c].created >= all_projects[j].created
                         /\ \A k \in EntriesOf(G) :
                             /\ duplicates[k].duplicate_of = c
                             /\ duplicates[k].duplicate_of_name = all_projects[c].name
                             /\ duplicates[k].duplicate_of # duplicates[k].project_id
\* a group of three under t1, the newest in the middle: the two others are
\* flagged as its duplicates
C17_Witness ==
    /\ Detected
    /\ all_projects = <<[name |-> s_proj_a, target_id |-> "t1", created |-> 1],
                        [name |-> s_proj_dot_a, target_id |-> "t1", created |-> 2],
                        [name |-> s_proj_a, target_id |-> "t1", created |-> 1]>>
    /\ Flagged = {1, 3}
    /\ \A k \in 1..Len(duplicates) :
        duplicates[k].duplicate_of = 2 /\ duplicates[k].duplicate_of_name = s_proj_dot_a

\* C18: a project whose name has no ':' or that has no target id is never
\* flagged and never appears as the duplicate_of of a flagged project.
C18_ExcludedNeverFlagged ==
    Detected
        => \A k \in 1..Len(duplicates) :
            /\ duplicates[k].project_id \in Grouped
            /\ duplicates[k].duplicate_of \in Grouped
\* "a" without separator, and "proj:a" without target, next to "proj:./a"
\* under t1: nothing is flagged, though all three have the sub-identifier "a"
C18_Witness ==
    /\ Detected
    /\ all_projects = <<[name |-> s_a, target_id |-> "t1", created |-> 1],
                        [name |-> s_proj_a, target_id |-> "", created |-> 1],
                        [name |-> s_proj_dot_a, target_id |-> "t1", created |-> 2]>>
    /\ Grouped = {3}
    /\ duplicates = <<>>

\* validate_file has returned
Validated == op = "validate_file" /\ pc = "done"
\* a path without leading and trailing slash
Clean(path) == path # <<>> /\ ~StartsWith(path, <<"/">>) /\ ~EndsWith(path, <<"/">>)
\* path is root or a path below it
LiesUnder(path, root) == path = root \/ StartsWith(path, root \o <<"/">>)
\* the path C19 asks for
JoinedPath ==
    IF LiesUnder(file_path, root_dir) THEN file_path
    ELSE root_dir \o <<"/">> \o file_path

\* C19 as claimed, for a root and a file path without leading and trailing
\* slashes: the path checked is file_path when it lies under root, and
\* root/file_path otherwise, also when file_path only shares a string prefix
\* with root.
C19_PathJoin ==
    (Validated /\ Clean(root_dir) /\ Clean(file_path))
        => file_result.full_path = JoinedPath
\* root "app", file "application/x" under snyk_sca_validator.py: the path
\* checked is "application/x"
C19_Witness ==
    /\ Validated /\ impl = "snyk_sca_validator"
    /\ root_dir = s_app
    /\ file_path = s_application \o <<"/">> \o s_x
    /\ file_result.full_path = s_application \o <<"/">> \o s_x
\* C19 where it holds: under snyk_sca_validator.py unless file_path starts
\* with root without lying under it, under snyk_sca_validator_core.py unless
\* file_path lies under root.
C19_Elsewhere ==
    (/\ Validated /\ Clean(root_dir) /\ Clean(file_path)
     /\ IF impl = "snyk_sca_validator"
        THEN StartsWith(file_path, root_dir) => LiesUnder(file_path, root_dir)
        ELSE ~LiesUnder(file_path, root_dir))
        => file_result.full_path = JoinedPath

\* check_file_exists has had an answer to its request and validate_file is
\* over
FileAnswered ==
    /\ op = "validate_file"
    /\ pc \in {"done", "raised"}
    /\ file_response # NoFileResponse
\* C20 as claimed: 200 gives exists = true, 404 gives exists = false, and any
\* other status or a transport failure is not reported as exists = false and
\* not counted in files_missing.
C20_ErrorsSurface ==
    FileAnswered
        => IF file_response = FileResponse(200)
           THEN pc = "done" /\ file_result.exists = "True"
           ELSE IF file_response = FileResponse(404)
           THEN pc = "done" /\ file_result.exists = "False"
           ELSE /\ ~(pc = "done" /\ file_result.exists = "False")
                /\ project_result.files_missing = 0
\* a 500 under snyk_sca_validator.py: exists = false, one file missing
C20_Witness ==
    /\ FileAnswered /\ impl = "snyk_sca_validator"
    /\ file_response = FileResponse(500)
    /\ pc = "done"
    /\ file_result.exists = "False"
    /\ project_result = [files_validated |-> 1, files_missing |-> 1, files_present |-> 0]
\* C20 where it holds: the answers 200 and 404 under both files, and the
\* transport failure under snyk_sca_validator_core.py, which leaves
\* validate_file as an exception.
C20_Elsewhere ==
    FileAnswered
        => /\ file_response = FileResponse(200)
                => pc = "done" /\ file_result.exists = "True"
           /\ file_response = FileResponse(404)
                => pc = "done" /\ file_result.exists = "False"
           /\ (file_response = Exc /\ impl = "snyk_sca_validator_core") => pc = "raised"

\* ---------------------------------------------------------------- C21
\* validate_target of snyk_sca_validator.py has returned and its
\* detect_missing_snyk_files did not raise
MissingDetected ==
    /\ op = "scan" /\ pc = "done" /\ impl = "snyk_sca_validator"
    /\ scanned_target.missing_snyk_files.error = "none"
\* the paths the target's projects declare
DeclaredPaths ==
    ({target_projects[i].target_file : i \in 1..Len(target_projects)} \ {<<>>})
        \cup UNION {{target_projects[i].files[k] : k \in 1..Len(target_projects[i].files)} :
                       i \in 1..Len(target_projects)}
\* the positions in repo_files of the files no project declares
UntrackedAt == {i \in 1..Len(repo_files) : repo_files[i].file_path \notin DeclaredPaths}

\* C21: missing_files holds exactly the supported files found in the
\* repository whose path no project of the target declares, in the order of
\* the scan; missing_count is its length, total_supported_files the number
\* of supported files found, currently_tracked the number of distinct
\* declared paths, and no declared path is in missing_files.
C21_UntrackedIsSupportedMinusTracked ==
    MissingDetected =>
        LET m == scanned_target.missing_snyk_files
        IN  /\ Len(m.missing_files) = Cardinality(UntrackedAt)
            /\ \A k \in 1..Len(m.missing_files) :
                   \E i \in UntrackedAt :
                       /\ m.missing_files[k] = repo_files[i]
                       /\ Cardinality({j \in UntrackedAt : j < i}) = k - 1
            /\ m.missing_count = Len(m.missing_files)
            /\ m.total_supported_files = Len(repo_files)
            /\ m.currently_tracked = Cardinality(DeclaredPaths)
            /\ \A k \in 1..Len(m.missing_files) :
                   m.missing_files[k].file_path \notin DeclaredPaths

\* two supported files were found, one declared by two projects and one by
\* none
C21_Witness ==
    /\ MissingDetected
    /\ Len(repo_files) = 2
    /\ Len(target_projects) = 2
    /\ target_projects[1].target_file = target_projects[2].target_file
    /\ scanned_target.missing_snyk_files.currently_tracked = 1
    /\ scanned_target.missing_snyk_files.missing_count = 1
    /\ repo_files[1].file_path \in DeclaredPaths

\* ---------------------------------------------------------------- C22
\* the step is a call of validate_organization for an organization the
\* access check said is not accessible
InaccessibleCall ==
    /\ Len(calls') = Len(calls) + 1
    /\ ~calls'[Len(calls')].accessible

\* C22: for an organization that is not accessible validate_organization
\* returns a result with every counter 0, no targets and the error
\* "Organization not accessible"; no target, project or file request is
\* sent for it; the results and requests of the other organizations stay
\* as they are and the run goes on with the next organization.
C22_InaccessibleOrgOnly ==
    [][InaccessibleCall =>
        LET org_id == orgs_to_validate[oix + 1]
        IN  /\ calls'[Len(calls')] = [org_id |-> org_id, accessible |-> FALSE,
                                      raised |-> FALSE]
            /\ Len(all_results') = Len(all_results) + 1
            /\ SubSeq(all_results', 1, Len(all_results)) = all_results
            /\ LET r == all_results'[Len(all_results')]
               IN  /\ r.org_id = org_id
                   /\ r.result.targets_processed = 0
                   /\ r.result.projects_processed = 0
                   /\ r.result.files_validated = 0
                   /\ r.result.files_missing = 0
                   /\ r.result.files_present = 0
                   /\ r.result.targets = <<>>
                   /\ r.result.error = "Organization not accessible"
            /\ requests' \ requests = {<<org_id, "access">>}
            /\ oix' = oix + 1
            /\ pc' = "run"]_vars

\* the first organization was not accessible, the second one was and had a
\* target with a project and a file
C22_Witness ==
    /\ op = "main"
    /\ Len(calls) = 2
    /\ ~calls[1].accessible
    /\ calls[2].accessible
    /\ Len(all_results) = 2
    /\ all_results[1].result.error = "Organization not accessible"
    /\ all_results[2].result.files_validated = 1
    /\ <<2, "file">> \in requests
    /\ <<1, "targets">> \notin requests

\* ---------------------------------------------------------------- C23
\* the positions in calls of the calls that did not raise
Returning == {k \in 1..Len(calls) : ~calls[k].raised}

\* C23: the run loop calls validate_organization once for each organization
\* in list order, whether or not an earlier call raised; all_results holds
\* the results of the calls that did not raise, in that order; and the run
\* reaches generate_report, which gets those results.
C23_OncePerOrganization ==
    /\ [](op = "main" =>
            /\ Len(calls) = oix
            /\ \A k \in 1..Len(calls) : calls[k].org_id = orgs_to_validate[k]
            /\ Len(all_results) = Cardinality(Returning)
            /\ \A j \in 1..Len(all_results) :
                   \E k \in Returning :
                       /\ all_results[j].org_id = calls[k].org_id
                       /\ Cardinality({i \in Returning : i < k}) = j - 1
            /\ pc \in {"run", "done"}
            /\ pc = "done" =>
                   /\ oix = Len(orgs_to_validate)
                   /\ report.total_orgs = Len(all_results))
    /\ (op = "main" => <>(pc = "done"))

\* the call for the first organization raised, the one for the second did
\* not, and the report was generated
C23_Witness ==
    /\ op = "main"
    /\ pc = "done"
    /\ Len(calls) = 2
    /\ calls[1].raised
    /\ ~calls[2].raised
    /\ Len(all_results) = 1
    /\ all_results[1].org_id = 2
    /\ report.total_orgs = 1

\* ---------------------------------------------------------------- C24
\* C24: when get_projects_for_target fails for a target, validate_target
\* reports the target with an empty project list and validate_organization
\* goes on: the call does not raise, and every target whose projects were
\* asked for has its entry in org_results.
C24_ListingFailureIsLocal ==
    op = "validate_organization" =>
        /\ pc # "raised"
        /\ \A k \in project_requests : k <= tix /\ k <= Len(org_results.targets)

\* the listing failed for the second target: validate_organization raised
\* with the first target's result in org_results, which no caller gets
C24_Witness ==
    /\ op = "validate_organization"
    /\ pc = "raised"
    /\ tix = 1
    /\ Len(org_results.targets) = 1
    /\ org_results.targets[1].projects_processed = 1
    /\ 2 \in project_requests

\* ---------------------------------------------------------------- C25
\* the scan got the repository tree and returned
Scanned ==
    /\ op = "scan" /\ pc = "done"
    /\ tree_response = FileResponse(200)
\* the taxonomy of each file: the wildcard patterns by their suffix (the
\* pattern without its '*', the regular expression without its '$'), and
\* the exact-name patterns
Suffixes ==
    IF impl = "snyk_sca_validator"
    THEN {Tail(p) : p \in {q \in all_supported : StartsWith(q, <<"*", ".">>)}}
    ELSE {supported_patterns[k] : k \in {j \in 1..Len(supported_patterns) :
                                            Head(supported_patterns[j]) = "."}}
ExactNames ==
    IF impl = "snyk_sca_validator"
    THEN {q \in all_supported : ~StartsWith(q, <<"*", ".">>)}
    ELSE {supported_patterns[k] : k \in {j \in 1..Len(supported_patterns) :
                                            Head(supported_patterns[j]) # "."}}
\* the last component of a path
LastComponent(path) ==
    IF \E i \in 1..Len(path) : path[i] = "/"
    THEN LET i == CHOOSE i \in 1..Len(path) :
                      path[i] = "/" /\ \A j \in (i + 1)..Len(path) : path[j] # "/"
         IN  SubSeq(path, i + 1, Len(path))
    ELSE path
\* the tree entry is a blob whose basename the taxonomy matches
InTaxonomy(entry) ==
    /\ entry.type = "blob"
    /\ \/ LastComponent(entry.path) \in ExactNames
       \/ \E x \in Suffixes : EndsWith(LastComponent(entry.path), x)
\* the positions of the tree entries the taxonomy matches
MatchedAt == {i \in 1..Len(repo_tree) : InTaxonomy(repo_tree[i])}

\* C25: the scan reports exactly the blobs whose basename equals an
\* exact-name pattern or ends with the suffix of a wildcard pattern, in tree
\* order; every other entry is dropped.
C25_ScanByBasename ==
    Scanned =>
        /\ Len(repo_files) = Cardinality(MatchedAt)
        /\ \A k \in 1..Len(repo_files) :
               \E i \in MatchedAt :
                   /\ repo_files[k].file_path = repo_tree[i].path
                   /\ Cardinality({j \in MatchedAt : j < i}) = k - 1

\* snyk_sca_validator_core.py reported the blob xGemfile
C25_Witness ==
    /\ Scanned
    /\ impl = "snyk_sca_validator_core"
    /\ repo_tree = <<TreeEntry("blob", s_x \o s_Gemfile)>>
    /\ Len(repo_files) = 1
    /\ repo_files[1].pattern = s_Gemfile

\* It does hold of the scan of snyk_sca_validator.py.
C25_ValidatorScan == impl = "snyk_sca_validator" => C25_ScanByBasename

\* ---------------------------------------------------------------- C29
\* the file results of the target's projects that say the file is present
PresentFiles ==
    UNION {{p.files[k].full_path : k \in {j \in 1..Len(p.files) : p.files[j].exists = "True"}} :
              p \in {scanned_target.projects[i] : i \in 1..Len(scanned_target.projects)}}

\* C29: a file that a project of the target declares and that validate_file
\* found at its resolved path is not in the target's missing_files, whatever
\* the project's root directory.
C29_PresentNeverMissing ==
    MissingDetected =>
        \A k \in 1..Len(scanned_target.missing_snyk_files.missing_files) :
            scanned_target.missing_snyk_files.missing_files[k].file_path \notin PresentFiles

\* the project with root "app" declares package.json; app/package.json is
\* in the repository, was found present, and is listed as missing
C29_Witness ==
    /\ MissingDetected
    /\ Len(target_projects) = 1
    /\ target_projects[1].root = s_app
    /\ target_projects[1].target_file = s_package_json
    /\ scanned_target.files_present = 1
    /\ scanned_target.projects[1].files[1].full_path = s_app \o <<"/">> \o s_package_json
    /\ scanned_target.missing_snyk_files.missing_count = 1
    /\ scanned_target.missing_snyk_files.missing_files[1].file_path
           = s_app \o <<"/">> \o s_package_json

\* It does hold when every project's root directory is empty.
C29_EmptyRoots ==
    (\A i \in 1..Len(target_projects) : target_projects[i].root = <<>>)
        => C29_PresentNeverMissing

\* ---------------------------------------------------------------- C28
\* get_targets_for_org of snyk_sca_validator.py has returned
TargetsReturned == op = "get_targets_for_org" /\ pc = "done"

\* C28: the list get_targets_for_org returns is made of the pages of one
\* version attempt, the last one, from page 1 on in page order and each page
\* in its own order; no item of an attempt that failed is in it and no item
\* is in it twice.
C28_SingleAttempt ==
    TargetsReturned =>
        LET items == result.items
        IN  /\ result.kind = "list"
            /\ \A k \in 1..Len(items) : items[k][1] = vi
            /\ items = ConcatPages(vi, served, Len(served))
            /\ \A i, j \in 1..Len(items) : items[i] = items[j] => i = j

\* an attempt failed after it had accumulated items, and a later attempt
\* returned two pages
C28_Witness ==
    /\ TargetsReturned
    /\ dropped
    /\ vi > 1
    /\ Len(served) = 2
    /\ Len(result.items) >= 2

\* ---------------------------------------------------------------- C30
\* the list with the projects at positions k and k + 1 exchanged, and the
\* position a project of that list has in the list as given
Exchanged(all, k) ==
    [i \in 1..Len(all) |->
        IF i = k THEN all[k + 1] ELSE IF i = k + 1 THEN all[k] ELSE all[i]]
Back(k, i) == IF i = k THEN k + 1 ELSE IF i = k + 1 THEN k ELSE i
\* who is flagged as a duplicate of whom
Verdicts == {<<duplicates[i].project_id, duplicates[i].duplicate_of>> :
                i \in 1..Len(duplicates)}
\* the same for the list with positions k and k + 1 exchanged, each project
\* named by its position in the list as given
VerdictsExchanged(k) ==
    LET stale == detect_duplicate_projects_by_name_pattern(Exchanged(all_projects, k))
    IN  {<<Back(k, stale[i].project_id), Back(k, stale[i].duplicate_of)>> :
            i \in 1..Len(stale)}
\* no two projects of one group were created at the same time
DistinctCreated ==
    \A i \in Grouped : \A j \in GroupOf(i) :
        all_projects[i].created = all_projects[j].created => i = j

\* C30: when the creation timestamps within each group are pairwise
\* distinct, the detection flags the same projects as duplicates of the same
\* projects for the list with any two neighbours exchanged, hence (every
\* permutation being a product of such exchanges, none of which changes the
\* groups) for every permutation of the list; and the call leaves
\* all_projects as it was.
C30_OrderIndependent ==
    /\ []((Detected /\ DistinctCreated) =>
            \A k \in 1..(Len(all_projects) - 1) : VerdictsExchanged(k) = Verdicts)
    /\ [][all_projects' = all_projects]_vars

\* three projects of one group, the newest listed second: the two others
\* are flagged as its duplicates
C30_Witness ==
    /\ Detected
    /\ DistinctCreated
    /\ Len(all_projects) = 3
    /\ GroupOf(1) = {1, 2, 3}
    /\ all_projects[2].created = 3
    /\ Verdicts = {<<1, 2>>, <<3, 2>>}

\* ---------------------------------------------------------------- C27
RECURSIVE Sum(_, _)
\* the sum of the counter of the records of a list
Sum(records, counter) ==
    IF records = <<>> THEN 0 ELSE Head(records)[counter] + Sum(Tail(records), counter)
FileCounters == {"files_validated", "files_missing", "files_present"}
\* files_validated = files_present + files_missing
Balanced(r) == r.files_validated = r.files_present + r.files_missing
ProjectConsistent(p) ==
    /\ Balanced(p)
    /\ p.files_validated = Len(p.files)
    /\ p.files_present = Len(SelectSeq(p.files, LAMBDA f : f.exists = "True"))
TargetConsistent(t) ==
    /\ Balanced(t)
    /\ t.projects_processed = Len(t.projects)
    /\ \A c \in FileCounters : t[c] = Sum(t.projects, c)
    /\ \A i \in 1..Len(t.projects) : ProjectConsistent(t.projects[i])
OrganizationConsistent(o) ==
    /\ Balanced(o)
    /\ o.targets_processed = Len(o.targets)
    /\ \A c \in FileCounters \cup {"projects_processed"} : o[c] = Sum(o.targets, c)
    /\ \A i \in 1..Len(o.targets) : TargetConsistent(o.targets[i])

\* C27: in every result validate_organization returns, and in the target
\* and project results it holds, files_validated = files_present +
\* files_missing; a project's files_validated is the length of its files
\* list; a target's projects_processed is the length of its projects list
\* and its file counters are the sums over its projects; the organization's
\* counters are the sums over its targets.
C27_CountersConsistent ==
    op = "validate_organization_files" =>
        \A k \in 1..Len(all_results) : OrganizationConsistent(all_results[k].result)

\* two targets: one with a project of two files, one found and one not, and
\* one with a project whose details could not be had and a project of one
\* file
C27_Witness ==
    /\ op = "validate_organization_files"
    /\ pc = "done"
    /\ Len(all_results) = 1
    /\ LET o == all_results[1].result
       IN  /\ o.targets_processed = 2
           /\ o.projects_processed = 3
           /\ o.files_validated = 3
           /\ o.files_missing = 1
           /\ o.targets[1].projects[1].files_validated = 2
           /\ o.targets[2].projects[1].error = "Could not get project details"

\* ---------------------------------------------------------------- C26
\* the union of both catalogs' keys
BothKeys == catalog_keys(target_catalog) \cup host_catalog
\* the targets filed under the keys of a set
TargetsUnder(keys) ==
    UNION {{target_catalog[k][i] : i \in 1..Len(target_catalog[k])} :
              k \in keys \cap DOMAIN target_catalog}
Classified == match_result.matched \cup match_result.left_only \cup match_result.right_only

\* C26: after evaluate(), matched is the keys in both catalogs, left-only
\* the keys in the target catalog only, right-only the keys in the host
\* catalog only; the three sets are pairwise disjoint and their union is the
\* union of both catalogs' keys, empty catalogs included; the sentinel of
\* the unresolvable bucket and the targets in the bucket are in none of the
\* three, and the bucket holds exactly the targets whose reference did not
\* resolve.
C26_Partition ==
    (op = "evaluate" /\ pc = "evaluated") =>
        /\ match_result.matched = catalog_keys(target_catalog) \cap host_catalog
        /\ match_result.left_only = catalog_keys(target_catalog) \ host_catalog
        /\ match_result.right_only = host_catalog \ catalog_keys(target_catalog)
        /\ match_result.matched \cap match_result.left_only = {}
        /\ match_result.matched \cap match_result.right_only = {}
        /\ match_result.left_only \cap match_result.right_only = {}
        /\ Classified = BothKeys
        /\ Sentinel \notin Classified
        /\ \A i \in 1..Len(match_result.unresolvable) :
            /\ match_result.unresolvable[i] \notin TargetsUnder(Classified)
            /\ parse_repo_url(match_result.unresolvable[i].source_url) = NullInfo
        /\ \A t \in TargetsUnder(Classified) : parse_repo_url(t.source_url) # NullInfo
        /\ Cardinality(TargetsUnder(Classified)) + Len(match_result.unresolvable)
               = Cardinality(catalog_targets(target_catalog))

\* a matched repository, one tracked but absent from the host, one on the
\* host that nothing tracks, and a target without URL in the bucket
C26_Witness ==
    /\ op = "evaluate"
    /\ pc = "evaluated"
    /\ match_result.matched # {}
    /\ match_result.left_only # {}
    /\ match_result.right_only # {}
    /\ Len(match_result.unresolvable) = 1

\* both catalogs empty
C26_EmptyCatalogs ==
    /\ op = "evaluate"
    /\ pc = "evaluated"
    /\ host_catalog = {}
    /\ catalog_targets(target_catalog) = {}
    /\ Classified = {}

====
